---- MODULE Spec2Model ----
(***************************************************************************)
(* Model of the twitch-clawcraft tool service (src/index.js): the          *)
(* POST /tools/execute dispatcher, the per-action rate limiter, the job    *)
(* store and idempotency index, the per-agent promise-chain lock of        *)
(* TwitchStreamRuntime, the OBS start/stop sequences and the periodic      *)
(* sweep.                                                                  *)
(*                                                                         *)
(* Strings that the code trims or matches against a regular expression     *)
(* are sequences of one-character strings.  A macrotask of the event loop  *)
(* (a request handler up to its response, a timer callback, the            *)
(* continuation of an I/O completion together with the synchronous code    *)
(* that follows it) is one action.                                         *)
(***************************************************************************)
EXTENDS Integers, Sequences, FiniteSets, TLC

(***************************************************************************)
(* Bounds of the model.                                                    *)
(***************************************************************************)
\* number of POST /tools/execute calls in a run
MaxRequests == 2
\* number of clock ticks in a run
MaxTicks == 1
\* requests submitted in a run of the rate-limiter specification
MaxRateRequests == 4
\* half windows the clock advances in a run of the rate-limiter specification
MaxRateTicks == 3
\* requests submitted in a run of the sweep specification
MaxSweepRequests == 2
\* steps of JOB_TTL_MS the clock advances in a run of the sweep specification
MaxSweepTicks == 5
\* requests submitted in a run of the device specification
MaxDeviceRequests == 3
\* requests submitted in a run of the dedup specification
MaxDedupRequests == 3
\* rate windows the clock advances in a run of the dedup specification
MaxDedupTicks == 1
\* requests submitted in a run of the sync specification
MaxSyncRequests == 3
\* the largest `retries` withRetry is called with
MaxRetries == 3
\* requests submitted in a run of the configured-limit specification
MaxLimitRequests == 3
\* rate windows the clock advances in a run of that specification
MaxLimitTicks == 1
\* requests submitted in a run of the clock-reading specification
MaxStampRequests == 2
\* milliseconds that may pass inside one run of the request handler
MaxElapsed == 1
\* requests submitted in a run of the set_game specification
MaxGameRequests == 2

(***************************************************************************)

(* Program constants.                                                      *)
(***************************************************************************)
\* TOOL_ACTION_RATE_LIMIT_PER_MIN (environment; the default is 60)
ACTION_RATE_LIMIT_PER_MIN == 2
\* the fixed rate window of canRunAction
RATE_WINDOW_MS == 60000
\* TOOL_JOB_TTL_MS (environment; the default is 120 * 60 * 1000)
JOB_TTL_MS == 30000
\* the period of the sweep's setInterval
SWEEP_INTERVAL_MS == 60000
\* OBS_OPERATION_RETRIES (environment; the default is 2)
OBS_OPERATION_RETRIES == 1
\* process.env.OBS_STREAM_SCENE || '': no default scene
OBS_STREAM_SCENE == <<>>

(***************************************************************************)
(* Strings.                                                                *)
(***************************************************************************)
Lower == {"a","b","c","d","e","f","g","h","i","j","k","l","m",
          "n","o","p","q","r","s","t","u","v","w","x","y","z"}
Upper == {"A","B","C","D","E","F","G","H","I","J","K","L","M",
          "N","O","P","Q","R","S","T","U","V","W","X","Y","Z"}
Digit == {"0","1","2","3","4","5","6","7","8","9"}
\* \w of a JavaScript regular expression
WordChar == Lower \cup Upper \cup Digit \cup {"_"}
\* the white space String.prototype.trim removes (the part used here)
WhiteSpace == {" ", "\t", "\n"}

RECURSIVE TrimStart(_)
TrimStart(s) ==
  IF s # <<>> /\ Head(s) \in WhiteSpace THEN TrimStart(Tail(s)) ELSE s

RECURSIVE TrimEnd(_)
TrimEnd(s) ==
  IF s # <<>> /\ s[Len(s)] \in WhiteSpace
  THEN TrimEnd(SubSeq(s, 1, Len(s) - 1))
  ELSE s

\* String.prototype.trim
Trim(s) == TrimEnd(TrimStart(s))

\* s matches /^[cls]{lo,hi}$/
MatchesClass(s, cls, lo, hi) ==
  /\ Len(s) >= lo
  /\ Len(s) <= hi
  /\ \A i \in 1..Len(s) : s[i] \in cls

\* n copies of the character c
Rep(c, n) == [i \in 1..n |-> c]

(***************************************************************************)
(* The action registry and the schemas.                                    *)
(***************************************************************************)
START_STREAM == "twitch.start_stream"
STOP_STREAM == "twitch.stop_stream"
SET_TITLE == "twitch.set_title"
SET_GAME == "twitch.set_game"
POST_CHAT_MESSAGE == "twitch.post_chat_message"
CREATE_CLIP == "twitch.create_clip"

TWITCH_TOOL_ACTIONS ==
  {START_STREAM, STOP_STREAM, SET_TITLE, SET_GAME, POST_CHAT_MESSAGE, CREATE_CLIP}

\* ASYNC_TOOL_ACTIONS that lists a sync action as well
AsyncAndSetTitle == {START_STREAM, STOP_STREAM, SET_TITLE}

ASYNC_TOOL_ACTIONS == {START_STREAM, STOP_STREAM}

\* one entry of schema.fields; minLength 0 and enum {} stand for "not set"
Field(name, minLength, maxLength, enum) ==
  [name |-> name, type |-> "string", minLength |-> minLength,
   maxLength |-> maxLength, enum |-> enum]

QualityEnum == { <<"l","o","w">>, <<"m","e","d","i","u","m">>,
                 <<"h","i","g","h">>, <<"s","o","u","r","c","e">> }

TWITCH_TOOL_SCHEMAS(action) ==
  CASE action = START_STREAM ->
         [required |-> <<"channel">>,
          allow |-> {"channel", "title", "game", "game_id", "obs_scene", "quality"},
          fields |-> << Field("channel", 2, 64, {}), Field("title", 1, 160, {}),
                        Field("game", 1, 120, {}), Field("game_id", 1, 80, {}),
                        Field("obs_scene", 1, 120, {}),
                        Field("quality", 0, 0, QualityEnum) >>]
    [] action = STOP_STREAM ->
         [required |-> <<>>,
          allow |-> {"reason", "channel"},
          fields |-> << Field("reason", 1, 160, {}), Field("channel", 2, 64, {}) >>]
    [] action = SET_TITLE ->
         [required |-> <<"title">>,
          allow |-> {"title", "channel"},
          fields |-> << Field("title", 1, 140, {}), Field("channel", 2, 64, {}) >>]
    [] action = SET_GAME ->
         [required |-> <<>>,
          allow |-> {"game", "game_id", "channel"},
          fields |-> << Field("game", 1, 120, {}), Field("game_id", 1, 80, {}),
                        Field("channel", 2, 64, {}) >>]
    [] action = POST_CHAT_MESSAGE ->
         [required |-> <<"message">>,
          allow |-> {"message", "channel", "reply_parent_message_id"},
          fields |-> << Field("message", 1, 500, {}), Field("channel", 2, 64, {}),
                        Field("reply_parent_message_id", 8, 60, {}) >>]
    [] action = CREATE_CLIP ->
         [required |-> <<>>,
          allow |-> {"title", "channel"},
          fields |-> << Field("title", 1, 100, {}), Field("channel", 2, 64, {}) >>]

ACTION_TO_HANDLER(action) ==
  CASE action = START_STREAM -> "startStream"
    [] action = STOP_STREAM -> "stopStream"
    [] action = SET_TITLE -> "setTitle"
    [] action = SET_GAME -> "setGame"
    [] action = POST_CHAT_MESSAGE -> "postChatMessage"
    [] action = CREATE_CLIP -> "createClip"

(***************************************************************************)
(* JSON values of args: a string, a number (with its String() form) or     *)
(* null.  args is a function from the keys present to their values.        *)
(***************************************************************************)
Str(s) == [type |-> "string", s |-> s]
Num(s) == [type |-> "number", s |-> s]
Null == [type |-> "null", s |-> <<>>]
NoArgs == [k \in {} |-> Null]

(***************************************************************************)
(* validateActionPayload.  A payload is a record of agent_id, action,      *)
(* request_id, mission_id, correlation_id (strings; <<>> when absent) and  *)
(* args.  null is <<>> in the normalized record.                           *)
(***************************************************************************)
NoNormalized ==
  [request_id |-> <<>>, agent_id |-> <<>>, action |-> "", args |-> NoArgs,
   mission_id |-> <<>>, correlation_id |-> <<>>]

Rejected(error) == [ok |-> FALSE, error |-> error, normalized |-> NoNormalized]

\* RequiredMissing that finds every required field present
RequiredNeverMissing(args, required) == FALSE

\* value === undefined || value === null || String(value).trim().length === 0
RequiredMissing(args, required) ==
  \/ required \notin DOMAIN args
  \/ args[required].type = "null"
  \/ Len(Trim(args[required].s)) = 0

\* the loop over Object.entries(schema.fields)
RECURSIVE CheckFields(_, _)
CheckFields(fields, args) ==
  IF fields = <<>> THEN [ok |-> TRUE, error |-> "", args |-> args]
  ELSE
    LET constraints == Head(fields)
        field == constraints.name
    IN IF field \notin DOMAIN args THEN CheckFields(Tail(fields), args)
       ELSE IF args[field].type # "string"
         THEN [ok |-> FALSE, error |-> "must be string", args |-> args]
       ELSE
         LET value == Trim(args[field].s) IN
         IF constraints.minLength # 0 /\ Len(value) < constraints.minLength
           THEN [ok |-> FALSE, error |-> "too short", args |-> args]
         ELSE IF constraints.maxLength # 0 /\ Len(value) > constraints.maxLength
           THEN [ok |-> FALSE, error |-> "too long", args |-> args]
         ELSE IF constraints.enum # {} /\ value \notin constraints.enum
           THEN [ok |-> FALSE, error |-> "has invalid value", args |-> args]
         ELSE CheckFields(Tail(fields), [args EXCEPT ![field] = Str(value)])

\* Falsy that takes every field for set
FalsyNever(args, field) == FALSE

\* !args[field]
Falsy(args, field) ==
  \/ field \notin DOMAIN args
  \/ args[field].type = "null"
  \/ args[field].s = <<>>

\* the character class of /^[A-Za-z0-9._-]{2,120}$/ and of /^[\w.-]{4,120}$/
IdChar == WordChar \cup {".", "-"}

\* MissingAsyncIdentity that lets every async request through
AnonymousAsyncAllowed(action, requestId, missionId, correlationId) == FALSE

\* ASYNC_TOOL_ACTIONS.has(action) && !requestId && !(missionId || correlationId)
MissingAsyncIdentity(action, requestId, missionId, correlationId) ==
  /\ action \in ASYNC_TOOL_ACTIONS
  /\ requestId = <<>>
  /\ ~(missionId # <<>> \/ correlationId # <<>>)

validateActionPayload(payload) ==
  LET requestId == Trim(payload.request_id)
      agentId == Trim(payload.agent_id)
      action == payload.action
      args == payload.args
      missionId == Trim(payload.mission_id)
      correlationId == Trim(payload.correlation_id)
  IN
  IF agentId = <<>> \/ ~MatchesClass(agentId, IdChar, 2, 120)
    THEN Rejected("agent_id must be 2-120 chars")
  ELSE IF action \notin TWITCH_TOOL_ACTIONS
    THEN Rejected("Unsupported action")
  ELSE
    LET schema == TWITCH_TOOL_SCHEMAS(action) IN
    IF MissingAsyncIdentity(action, requestId, missionId, correlationId)
      THEN Rejected("request_id required for async action")
    ELSE IF \E key \in DOMAIN args : key \notin schema.allow
      THEN Rejected("Unexpected field")
    ELSE IF \E i \in 1..Len(schema.required) : RequiredMissing(args, schema.required[i])
      THEN Rejected("Field is required")
    ELSE
      LET checked == CheckFields(schema.fields, args) IN
      IF ~checked.ok THEN Rejected(checked.error)
      ELSE IF /\ action = SET_GAME
              /\ Falsy(checked.args, "game")
              /\ Falsy(checked.args, "game_id")
        THEN Rejected("twitch.set_game requires game or game_id")
      ELSE [ok |-> TRUE, error |-> "",
            normalized |-> [request_id |-> requestId, agent_id |-> agentId,
                            action |-> action, args |-> checked.args,
                            mission_id |-> missionId,
                            correlation_id |-> correlationId]]

(***************************************************************************)
(* Identifiers.  crypto.randomBytes draws are fresh numbers taken from the *)
(* counter nextId; the truncated SHA-1 of "async|seed|action|agent" is the *)
(* tuple of its inputs (an injective digest).                              *)
(***************************************************************************)
GivenId(s) == [kind |-> "given", s |-> s, n |-> 0, action |-> "", agent |-> <<>>]
RandomId(n) == [kind |-> "random", s |-> <<>>, n |-> n, action |-> "", agent |-> <<>>]
\* Sha1Id that leaves the agent out of the digest
Sha1IdWithoutAgent(seed, action, agent) ==
  [kind |-> "sha1", s |-> seed, n |-> 0, action |-> action, agent |-> <<>>]
Sha1Id(seed, action, agent) ==
  [kind |-> "sha1", s |-> seed, n |-> 0, action |-> action, agent |-> agent]
NoId == [kind |-> "none", s |-> <<>>, n |-> 0, action |-> "", agent |-> <<>>]

\* JobStore.normalizeId(value, 'req'); fresh is the next random draw
normalizeId(value, fresh) ==
  IF MatchesClass(Trim(value), IdChar, 4, 120)
  THEN GivenId(Trim(value))
  ELSE RandomId(fresh)

\* the requestId of app.post('/tools/execute') for the normalized request n
RequestIdOf(n, fresh) ==
  LET idempotencySeed ==
        IF n.request_id # <<>> THEN n.request_id
        ELSE IF n.mission_id # <<>> THEN n.mission_id
        ELSE IF n.correlation_id # <<>> THEN n.correlation_id
        ELSE <<n.action, ":">> \o n.agent_id
  IN IF n.request_id # <<>>
     THEN normalizeId(n.request_id, fresh)
     ELSE Sha1Id(idempotencySeed, n.action, n.agent_id)

\* `${action}:${requestId}`
IdempotencyKey(action, requestId) == [action |-> action, request_id |-> requestId]

(***************************************************************************)
(* Error messages.                                                         *)
(***************************************************************************)
\* `${label} timed out`
TimedOut(label) == [kind |-> "timed out", label |-> label]
\* any other error message
Failure(message) == [kind |-> message, label |-> ""]
NoError == [kind |-> "", label |-> ""]

(***************************************************************************)
(* JobStore.                                                               *)
(***************************************************************************)
buildProgress(percent, message) == [percent |-> percent, message |-> message]

NoResult == [status |-> "", error |-> NoError]

createJob(id, action, requestId, agentId, missionId, correlationId, now) ==
  [id |-> id, action |-> action, request_id |-> requestId, agent_id |-> agentId,
   mission_id |-> missionId, correlation_id |-> correlationId,
   status |-> "queued", progress |-> buildProgress(5, "queued"),
   result |-> NoResult, created_at |-> now, updated_at |-> now]

\* failJob that leaves the progress of the job as it was
failJobKeepsProgress(job, error, t) ==
  [job EXCEPT !.status = "failed",
              !.result = [@ EXCEPT !.error = error],
              !.updated_at = t]

failJob(job, error, now) ==
  [job EXCEPT !.status = "failed",
              !.result = [@ EXCEPT !.error = error],
              !.progress = buildProgress(100, "failed"),
              !.updated_at = now]

jobSummary(job) ==
  [id |-> job.id, action |-> job.action, status |-> job.status,
   progress |-> job.progress, request_id |-> job.request_id,
   created_at |-> job.created_at, updated_at |-> job.updated_at]

(***************************************************************************)
(* State.                                                                  *)
(***************************************************************************)
VARIABLES
  now,                \* Date.now(), in milliseconds since the process started
  nextSweep,          \* the time the sweep's interval timer is due next
  nreq,               \* the number of POST /tools/execute calls handled
  nextId,             \* the next crypto.randomBytes draw
  jobs,               \* the jobs map: job id -> job
  idempotency,        \* the idempotency map: key -> job id
  rateLimitByAction,  \* the rate buckets: action -> [start, count]
  sessions,           \* streamRuntime.sessions: agent id -> state
  jobLock,            \* streamRuntime.jobLock: agent id -> the tail promise
  tasks,              \* the handler invocations: request number -> task
  obs,                \* the stream output of the OBS instance
  scene,              \* the current program scene of the OBS instance
  lastResponse,       \* the response the last request handler step sent
  retry,              \* a call of withRetry on its own: inputs and progress
  actionRateLimit     \* ACTION_RATE_LIMIT_PER_MIN as this process was configured

vars ==
  <<now, nextSweep, nreq, nextId, jobs, idempotency, rateLimitByAction,
    sessions, jobLock, tasks, obs, scene, lastResponse, retry, actionRateLimit>>

(***************************************************************************)
(* canRunAction: the fixed-window rate limiter.  buckets is                *)
(* rateLimitByAction, nowMs is Date.now(), the limit is the configured     *)
(* ACTION_RATE_LIMIT_PER_MIN; the result is the verdict and the map as the *)
(* call leaves it.                                                         *)
(***************************************************************************)
\* canRunAction that admits at capacity
canRunActionUnlimited(buckets, action, nowMs) ==
  LET found == IF action \in DOMAIN buckets THEN buckets[action]
               ELSE [start |-> nowMs, count |-> 0]
      bucket == IF nowMs - found.start >= RATE_WINDOW_MS
                THEN [start |-> nowMs, count |-> 0]
                ELSE found
  IN [ok |-> TRUE,
      buckets |-> (action :> [bucket EXCEPT !.count = @ + 1]) @@ buckets]

canRunAction(buckets, action, nowMs) ==
  LET limit == actionRateLimit
      found == IF action \in DOMAIN buckets THEN buckets[action]
               ELSE [start |-> nowMs, count |-> 0]
      bucket == IF nowMs - found.start >= RATE_WINDOW_MS
                THEN [start |-> nowMs, count |-> 0]
                ELSE found
  IN IF bucket.count >= limit
     THEN [ok |-> FALSE, buckets |-> (action :> bucket) @@ buckets]
     ELSE [ok |-> TRUE,
           buckets |-> (action :> [bucket EXCEPT !.count = @ + 1]) @@ buckets]

(***************************************************************************)
(* withRetry(fn, {retries, delayMs}): the state of one call.               *)
(*   outcomes[c]: whether the c-th call of fn returns ("ok") or throws     *)
(*   attempt:  the loop variable                                           *)
(*   calls:    the number of calls of fn made; the c-th call returns the   *)
(*             value c or throws the error c                               *)
(*   waits:    the durations passed to wait(), in order                    *)
(*   pc:       idle, call (at the head of the loop body), wait (in         *)
(*             `await wait(waitMs)`), returned, thrown                     *)
(***************************************************************************)
RetryState(retries, delayMs, outcomes, pc) ==
  [retries |-> retries, delayMs |-> delayMs, outcomes |-> outcomes, pc |-> pc,
   attempt |-> 0, calls |-> 0, waits |-> <<>>, lastError |-> 0, result |-> 0]

\* no call of withRetry under way
NoRetry == RetryState(0, 0, <<>>, "idle")

(***************************************************************************)
(* HTTP responses of POST /tools/execute.                                  *)
(***************************************************************************)
NoProgress == [percent |-> 0, message |-> ""]

Response(code, ok, error, jobId, status, progress, requestId) ==
  [code |-> code, ok |-> ok, error |-> error, job_id |-> jobId,
   status |-> status, progress |-> progress, request_id |-> requestId]

NoResponse == Response(0, FALSE, NoError, 0, "", NoProgress, NoId)

(***************************************************************************)
(* A task is one invocation of a runtime handler (startStream, stopStream, *)
(* setTitle, ...), numbered by the request that made it.  The promise      *)
(* `next` that _withActionLock creates for it is named by the same number; *)
(* prior = 0 stands for Promise.resolve().                                 *)
(*   pc:   waiting   the body waits for prior to settle                    *)
(*         metadata  startStream awaits _setMetadata                       *)
(*         race      the body awaits withTimeout's Promise.race            *)
(*         end       `next` has settled (lock says how)                    *)
(*   op:   the executor operation raced against the timer; it goes on      *)
(*         after the timer has fired                                       *)
(*   request: the normalized request the handler was called for            *)
(*   ran:  the callback given to prior.then has been called                *)
(*   found: the session state a start or stop body read when it began      *)
(***************************************************************************)
NoOp ==
  [pc |-> "none", attempt |-> 0, polled |-> FALSE,
   requests |-> {}]   \* the state-changing requests sent to the device

NewTask(n, requestId, job, prior, started) ==
  [agent |-> n.agent_id, action |-> n.action, args |-> n.args, request |-> n,
   request_id |-> requestId, job |-> job, ran |-> FALSE,
   prior |-> prior, pc |-> "waiting", lock |-> "pending",
   status |-> "", error |-> NoError, op |-> NoOp, started |-> started,
   found |-> "", response |-> NoResponse]

\* the label withTimeout is given inside the agent lock
TimeoutLabel(action) ==
  CASE action = START_STREAM -> "start stream"
    [] action = STOP_STREAM -> "stop stream"
    [] action = SET_TITLE -> "set_title"
    [] action = SET_GAME -> "set_game"
    [] action = POST_CHAT_MESSAGE -> "post_chat_message"
    [] action = CREATE_CLIP -> "create_clip"

(***************************************************************************)
(* The requests of the model.                                              *)
(***************************************************************************)
Payload(agent, action, requestId, missionId, correlationId, args) ==
  [agent_id |-> agent, action |-> action, request_id |-> requestId,
   mission_id |-> missionId, correlation_id |-> correlationId, args |-> args]

b1 == <<"b", "1">>
b2 == <<"b", "2">>
req1 == <<"r", "e", "q", "1">>
req2 == <<"r", "e", "q", "2">>
r1 == <<"r", "1">>
m1 == <<"m", "1">>
m2 == <<"m", "2">>
c1 == <<"c", "1">>
Channel == ("channel" :> Str(<<"a", "b">>))

\* requests that pass validation
ValidPayloads ==
  { Payload(b1, START_STREAM, req1, <<>>, <<>>, Channel),
    Payload(b1, START_STREAM, <<" ">> \o req1 \o <<" ">>, <<>>, <<>>, Channel),
    Payload(b1, START_STREAM, r1, <<>>, <<>>, Channel),
    Payload(b2, START_STREAM, req1, <<>>, <<>>,
            Channel @@ ("title" :> Str(<<"t">>)) @@ ("obs_scene" :> Str(<<"s">>))),
    Payload(b1, STOP_STREAM, req2, <<>>, <<>>, NoArgs),
    Payload(b1, START_STREAM, <<>>, m1, <<>>, Channel),
    Payload(b1, SET_TITLE, <<>>, <<>>, <<>>, ("title" :> Str(<<"t">>))) }

\* requests that validation rejects
InvalidPayloads ==
  { Payload(b1, START_STREAM, <<>>, <<>>, <<>>, Channel),
    Payload(b1, STOP_STREAM, <<" ">>, <<" ">>, <<>>, NoArgs),
    Payload(b1, START_STREAM, req1, <<>>, <<>>, NoArgs),
    Payload(b1, START_STREAM, req1, <<>>, <<>>, ("channel" :> Str(<<" ", " ">>))),
    Payload(b1, START_STREAM, req1, <<>>, <<>>, ("channel" :> Null)),
    Payload(b1, START_STREAM, req1, <<>>, <<>>, Channel @@ ("bogus" :> Str(<<"x">>))),
    Payload(b1, START_STREAM, req1, <<>>, <<>>, ("channel" :> Str(<<" ", "a", " ">>))),
    Payload(b1, START_STREAM, req1, <<>>, <<>>, ("channel" :> Str(Rep("a", 65)))),
    Payload(b1, START_STREAM, req1, <<>>, <<>>, ("channel" :> Num(<<"4", "2">>))),
    Payload(b1, START_STREAM, req1, <<>>, <<>>, Channel @@ ("quality" :> Str(<<"h", "d">>))),
    Payload(b1, "twitch.ban_user", req1, <<>>, <<>>, NoArgs),
    Payload(<<"b">>, START_STREAM, req1, <<>>, <<>>, Channel),
    Payload(<<"b", "!">>, SET_TITLE, <<>>, <<>>, <<>>, ("title" :> Str(<<"t">>))),
    Payload(b1, SET_TITLE, <<>>, <<>>, <<>>, NoArgs),
    Payload(b1, SET_GAME, <<>>, <<>>, <<>>, NoArgs) }

Payloads == ValidPayloads \cup InvalidPayloads

\* the requests of the dedup specification: async requests without
\* request_id that agree or differ in agent, action, mission and correlation
DedupPayloads ==
  { Payload(b1, START_STREAM, <<>>, m1, <<>>, Channel),
    Payload(b1, START_STREAM, <<>>, <<" ">> \o m1, c1, Channel),
    Payload(b1, START_STREAM, <<>>, m2, <<>>, Channel),
    Payload(b2, START_STREAM, <<>>, m1, <<>>, Channel),
    Payload(b1, START_STREAM, <<>>, <<>>, c1, Channel),
    Payload(b1, START_STREAM, <<>>, <<>>, m1, Channel),
    Payload(b1, STOP_STREAM, <<>>, m1, <<>>, NoArgs) }

\* the requests of the sync specification: sync actions with and without a
\* request_id, and an async action under the same request_id
SyncPayloads ==
  { Payload(b1, SET_TITLE, req1, <<>>, <<>>, ("title" :> Str(<<"t">>))),
    Payload(b1, SET_TITLE, <<>>, <<>>, <<>>, ("title" :> Str(<<"t">>))),
    Payload(b1, SET_GAME, req1, m1, <<>>, ("game" :> Str(<<"g">>))),
    Payload(b1, STOP_STREAM, req1, <<>>, <<>>, NoArgs) }

\* the requests of the set_game specification: no selector at all, one or
\* both selectors at and inside their length bounds (before and after
\* trimming), and selectors that are empty, too long or not strings
GamePayloads ==
  { Payload(b1, SET_GAME, <<>>, <<>>, <<>>, args) : args \in
      { NoArgs,
        Channel,
        ("game" :> Str(<<"g">>)),
        ("game_id" :> Str(<<"7">>)),
        ("game" :> Str(<<"g">>)) @@ ("game_id" :> Str(<<"7">>)),
        ("game" :> Str(<<" ", "g", " ">>)) @@ Channel,
        ("game" :> Str(Rep("g", 120))),
        ("game_id" :> Str(Rep("7", 80))),
        ("game" :> Str(Rep("g", 121))),
        ("game_id" :> Str(Rep("7", 81))),
        ("game" :> Str(<<>>)),
        ("game" :> Str(<<" ">>)),
        ("game" :> Str(<<"g">>)) @@ ("game_id" :> Str(<<>>)),
        ("game" :> Null),
        ("game_id" :> Num(<<"7">>)) } }

\* the requests of the device specification: an agent that stops its stream
\* twice, under request ids that do not replay, and an agent that starts one
DevicePayloads ==
  { Payload(b1, STOP_STREAM, req2, <<>>, <<>>, NoArgs),
    Payload(b1, STOP_STREAM, r1, <<>>, <<>>, NoArgs),
    Payload(b2, START_STREAM, req1, <<>>, <<>>, Channel) }

\* the requests of the rate-limiter specification: two agents, two actions,
\* request ids that replay a job and one that never does
RatePayloads ==
  { p \in ValidPayloads :
      /\ p.action \in ASYNC_TOOL_ACTIONS
      /\ p.request_id \in {req1, req2, r1} }

(***************************************************************************)
(* Init: the module-level state of a freshly started process.              *)
(***************************************************************************)
EmptyMap == [k \in {} |-> 0]

Init ==
  /\ now = 0
  /\ nextSweep = SWEEP_INTERVAL_MS
  /\ nreq = 0
  /\ nextId = 1
  /\ jobs = EmptyMap
  /\ idempotency = EmptyMap
  /\ rateLimitByAction = EmptyMap
  /\ sessions = EmptyMap
  /\ jobLock = EmptyMap
  /\ tasks = EmptyMap
  /\ obs = "inactive"
  /\ scene = <<>>
  /\ lastResponse = NoResponse
  /\ retry = NoRetry
  /\ actionRateLimit = ACTION_RATE_LIMIT_PER_MIN

(***************************************************************************)
(* POST /tools/execute: the handler up to its first await.                 *)
(***************************************************************************)
\* the first two statements of executeAsyncToolAction
executeAsyncToolActionStart(job) ==
  [job EXCEPT !.status = "running",
              !.progress = buildProgress(20, job.action \o " started")]

\* executeAsyncToolAction up to its first await: the status and the two
\* progress updates that precede the call of the runtime handler
executeAsyncToolActionEntry(job) ==
  [executeAsyncToolActionStart(job) EXCEPT
     !.progress = buildProgress(45, job.action \o " in progress")]

\* PriorOf with one chain for all agents: the latest action of any agent
PriorOfAnyAgent(lock, agentId) ==
  IF DOMAIN lock = {} THEN 0
  ELSE CHOOSE n \in {lock[a] : a \in DOMAIN lock} :
         \A m \in {lock[a] : a \in DOMAIN lock} : m <= n

\* PriorOf without the chain: every action starts from a resolved promise
PriorOfUnchained(lock, agentId) == 0

\* prior of _withActionLock: the tail of the agent's chain, or Promise.resolve()
PriorOf(lock, agentId) == IF agentId \in DOMAIN lock THEN lock[agentId] ELSE 0

\* the response to a new async request, built after executeAsyncToolAction
\* has been called
AcceptedResponse(job, requestId) ==
  Response(202, TRUE, NoError, job.id, job.status, job.progress, requestId)

\* the response that replays an existing job
ReplayResponse(existingJob) ==
  LET summary == jobSummary(existingJob)
  IN Response(202, TRUE, NoError, summary.id, summary.status,
              summary.progress, summary.request_id)

\* app.post('/tools/execute'): the whole handler up to its response.  The
\* clock is read by canRunAction and createJob first and again where
\* executeAsyncToolAction is entered; elapsed is the time that has passed
\* between the two readings.
ExecuteIn(payload, elapsed) ==
  /\ nreq' = nreq + 1
  /\ LET validated == validateActionPayload(payload)
         n == validated.normalized
         rate == canRunAction(rateLimitByAction, n.action, now)
         usesRandom == n.request_id # <<>> /\ normalizeId(n.request_id, 0).kind = "random"
         requestId == RequestIdOf(n, nextId)
         afterReq == IF usesRandom THEN nextId + 1 ELSE nextId
         correlationId == IF n.correlation_id # <<>> THEN n.correlation_id ELSE n.mission_id
         idempotencyKey == IdempotencyKey(n.action, requestId)
         existingJobId == IF idempotencyKey \in DOMAIN idempotency
                          THEN idempotency[idempotencyKey] ELSE 0
         job == createJob(afterReq, n.action, requestId, n.agent_id,
                          n.mission_id, correlationId, now)
         running == executeAsyncToolActionEntry(job)
         entered == now + elapsed
         prior == PriorOf(jobLock, n.agent_id)
     IN
     IF ~validated.ok THEN
       /\ lastResponse' = Response(400, FALSE, Failure(validated.error), 0, "", NoProgress, NoId)
       /\ UNCHANGED <<nextId, jobs, idempotency, rateLimitByAction, sessions, jobLock, tasks>>
     ELSE IF ~rate.ok THEN
       /\ rateLimitByAction' = rate.buckets
       /\ lastResponse' = Response(429, FALSE, Failure("rate limit exceeded for action"),
                                   0, "", NoProgress, NoId)
       /\ UNCHANGED <<nextId, jobs, idempotency, sessions, jobLock, tasks>>
     ELSE IF n.action \in ASYNC_TOOL_ACTIONS THEN
       IF existingJobId # 0 /\ existingJobId \in DOMAIN jobs THEN
         /\ rateLimitByAction' = rate.buckets
         /\ nextId' = afterReq
         /\ lastResponse' = ReplayResponse(jobs[existingJobId])
         /\ UNCHANGED <<jobs, idempotency, sessions, jobLock, tasks>>
       ELSE
         /\ rateLimitByAction' = rate.buckets
         /\ nextId' = afterReq + 1
         /\ jobs' = (job.id :> running) @@ jobs
         /\ idempotency' = (idempotencyKey :> job.id) @@ idempotency
         /\ tasks' = (nreq' :> NewTask(n, requestId, job.id, prior, entered)) @@ tasks
         /\ jobLock' = (n.agent_id :> nreq') @@ jobLock
         /\ lastResponse' = AcceptedResponse(running, requestId)
         /\ UNCHANGED sessions
     ELSE
       /\ rateLimitByAction' = rate.buckets
       /\ nextId' = afterReq
       /\ tasks' = (nreq' :> NewTask(n, requestId, 0, prior, 0)) @@ tasks
       /\ jobLock' = (n.agent_id :> nreq') @@ jobLock
       /\ lastResponse' = NoResponse
       /\ UNCHANGED <<jobs, idempotency, sessions>>
  /\ now' = now + elapsed
  /\ UNCHANGED <<nextSweep, obs, scene, retry, actionRateLimit>>

\* the handler when it runs within one reading of the clock
Execute(payload) == ExecuteIn(payload, 0)

(***************************************************************************)
(* The continuation of a settled handler promise.                          *)
(***************************************************************************)
\* the finally of the function executeAsyncToolAction hands to withRetry
executeAsyncToolActionFinally(job, started, t) ==
  IF t - started > 0 /\ job.action = START_STREAM
  THEN [job EXCEPT !.progress = buildProgress(70, "stream state updated")]
  ELSE job

\* executeAsyncToolAction after `await withRetry(...)`: ok says whether the
\* handler's promise was fulfilled (with result status `status`) or rejected
\* (with `error`)
executeAsyncToolActionExit(job, started, ok, status, error, t) ==
  LET updated == executeAsyncToolActionFinally(job, started, t)
  IN IF ok /\ status # "failed"
     THEN [updated EXCEPT
             !.status = "done",
             !.result = [status |-> IF status = "" THEN "done" ELSE status,
                         error |-> NoError],
             !.progress = buildProgress(100, job.action \o " finished"),
             !.updated_at = t]
     ELSE failJob(updated, IF ok THEN Failure("tool action failed") ELSE error, t)

\* SyncResponse that hides a failure behind a success answer
SyncResponseHidesFailure(ok, status, error, requestId) ==
  Response(200, TRUE, NoError, 0, IF status = "" THEN "done" ELSE status,
           NoProgress, requestId)

\* createSyncResult's then/catch and the response of the sync path
SyncResponse(ok, status, error, requestId) ==
  IF ok /\ status # "failed"
  THEN Response(200, TRUE, NoError, 0, IF status = "" THEN "done" ELSE status,
                NoProgress, requestId)
  ELSE Response(500, FALSE, error, 0, "failed", NoProgress, requestId)

RemoveKey(f, k) == [x \in DOMAIN f \ {k} |-> f[x]]

\* the task once its promise `next` has settled
SettledTask(task, ok, status, error) ==
  [task EXCEPT
     !.pc = "end",
     !.lock = IF ok THEN "fulfilled" ELSE "rejected",
     !.status = status,
     !.error = error,
     !.response = IF task.job = 0 /\ task.response.code = 0
                  THEN SyncResponse(ok, status, error, task.request_id)
                  ELSE task.response]

\* the jobs map after the handler promise of task has settled
JobsAfter(task, ok, status, error) ==
  IF task.job # 0 /\ task.job \in DOMAIN jobs
  THEN [jobs EXCEPT ![task.job] =
          executeAsyncToolActionExit(@, task.started, ok, status, error, now)]
  ELSE jobs

\* the finally of _withActionLock
ReleasedLock(t) ==
  IF tasks[t].agent \in DOMAIN jobLock /\ jobLock[tasks[t].agent] = t
  THEN RemoveKey(jobLock, tasks[t].agent)
  ELSE jobLock

\* _getSession(agentId).state
SessionState(agentId) ==
  IF agentId \in DOMAIN sessions THEN sessions[agentId] ELSE "idle"

\* SessionsAfter that leaves the session as the body set it at its start
SessionsAfterUnchanged(task, ok) == sessions

\* the session after the body of a start or stop has ended
SessionsAfter(task, ok) ==
  IF task.action \in ASYNC_TOOL_ACTIONS
  THEN (task.agent :> (IF ~ok THEN "failed"
                       ELSE IF task.action = START_STREAM THEN "running"
                       ELSE "stopped")) @@ sessions
  ELSE sessions

\* The body of task t ends (returns or throws): the session is set, the
\* lock is released, `next` settles and the handler's continuation runs.
\* ts is the tasks map with the step's own updates of the operation.
BodyEnds(t, ts, ok, status, error) ==
  /\ tasks' = [ts EXCEPT ![t] = SettledTask(ts[t], ok, status, error)]
  /\ jobs' = JobsAfter(tasks[t], ok, status, error)
  /\ jobLock' = ReleasedLock(t)
  /\ sessions' = SessionsAfter(tasks[t], ok)

(***************************************************************************)
(* The agent lock and the bodies of the runtime handlers.                  *)
(***************************************************************************)
\* Boolean(metadata.title || metadata.game || metadata.game_id)
HasMetadata(args) == DOMAIN args \cap {"title", "game", "game_id"} # {}

\* args.obs_scene || OBS_STREAM_SCENE
SceneName(args) ==
  IF "obs_scene" \in DOMAIN args /\ args["obs_scene"].s # <<>>
  THEN args["obs_scene"].s
  ELSE OBS_STREAM_SCENE

\* the operation a body hands to withTimeout, at its first call
StartedOp(action, args) ==
  [NoOp EXCEPT !.pc = IF action = START_STREAM /\ SceneName(args) # <<>> THEN "scene"
                      ELSE IF action \in ASYNC_TOOL_ACTIONS THEN "check"
                      ELSE "call"]

\* the state an in-flight start (stop) leaves in the session
InFlightState(action) == IF action = START_STREAM THEN "starting" ELSE "stopping"

\* prior.then(async () => ...): prior has settled.  The callback runs only
\* if prior was fulfilled; a rejected prior rejects `next` with its error.
LockGrant(t) ==
  /\ t \in DOMAIN tasks
  /\ tasks[t].pc = "waiting"
  /\ tasks[t].prior # 0 => tasks[tasks[t].prior].lock # "pending"
  /\ LET task == tasks[t]
         priorRejected == task.prior # 0 /\ tasks[task.prior].lock = "rejected"
     IN
     IF priorRejected THEN
       /\ tasks' = [tasks EXCEPT ![t] = SettledTask(task, FALSE, "", tasks[task.prior].error)]
       /\ jobs' = JobsAfter(task, FALSE, "", tasks[task.prior].error)
       /\ UNCHANGED <<jobLock, sessions>>
     ELSE IF task.action \in ASYNC_TOOL_ACTIONS THEN
       IF SessionState(task.agent) = InFlightState(task.action) THEN
         BodyEnds(t, [tasks EXCEPT ![t].ran = TRUE,
                                   ![t].found = SessionState(task.agent)], TRUE,
                  IF task.action = START_STREAM THEN "running" ELSE "stopped", NoError)
       ELSE
         /\ sessions' = (task.agent :> InFlightState(task.action)) @@ sessions
         /\ tasks' = [tasks EXCEPT ![t] =
              IF task.action = START_STREAM /\ HasMetadata(task.args)
              THEN [task EXCEPT !.ran = TRUE, !.pc = "metadata",
                                !.found = SessionState(task.agent)]
              ELSE [task EXCEPT !.ran = TRUE, !.pc = "race",
                                !.found = SessionState(task.agent),
                                !.op = StartedOp(task.action, task.args)]]
         /\ UNCHANGED <<jobs, jobLock>>
     ELSE
       /\ tasks' = [tasks EXCEPT ![t] =
                      [task EXCEPT !.ran = TRUE, !.pc = "race",
                                   !.op = StartedOp(task.action, task.args)]]
       /\ UNCHANGED <<jobs, jobLock, sessions>>
  /\ UNCHANGED <<now, nextSweep, nreq, nextId, idempotency, rateLimitByAction,
                 obs, scene, lastResponse, retry, actionRateLimit>>

\* startStream's `await this._setMetadata(...)` completes: the Twitch
\* metadata update succeeded, or it failed
SetMetadataDone(t) ==
  /\ t \in DOMAIN tasks
  /\ tasks[t].pc = "metadata"
  /\ \E ok \in BOOLEAN :
       IF ok THEN
         /\ tasks' = [tasks EXCEPT ![t].pc = "race", ![t].op = StartedOp(tasks[t].action, tasks[t].args)]
         /\ UNCHANGED <<jobs, jobLock, sessions>>
       ELSE BodyEnds(t, tasks, FALSE, "", Failure("twitch api error"))
  /\ UNCHANGED <<now, nextSweep, nreq, nextId, idempotency, rateLimitByAction,
                 obs, scene, lastResponse, retry, actionRateLimit>>

\* OperationEnds that delivers the outcome to the body also after a timeout
OperationEndsLate(t, ts, ok, status, error) == BodyEnds(t, ts, ok, status, error)

\* The operation of task t finishes with ts its tasks map.  If the body is
\* still awaiting the race it ends with the operation's outcome; after a
\* timeout the outcome is dropped.
OperationEnds(t, ts, ok, status, error) ==
  IF tasks[t].pc = "race"
  THEN BodyEnds(t, ts, ok, status, error)
  ELSE /\ tasks' = ts
       /\ UNCHANGED <<jobs, jobLock, sessions>>

OpDone(ts, t, ok) == [ts EXCEPT ![t].op.pc = IF ok THEN "ok" ELSE "err"]

\* OperationTimeout that aborts the operation it gave up on
OperationTimeoutAborts(t) ==
  /\ t \in DOMAIN tasks
  /\ tasks[t].pc = "race"
  /\ BodyEnds(t, [tasks EXCEPT ![t].op = NoOp], FALSE, "",
              TimedOut(TimeoutLabel(tasks[t].action)))
  /\ UNCHANGED <<now, nextSweep, nreq, nextId, idempotency, rateLimitByAction,
                 obs, scene, lastResponse, retry, actionRateLimit>>

\* OperationTimeout whose timer never fires
OperationTimeoutNever(t) == FALSE

\* withTimeout's timer fires while the body awaits the race: the body
\* throws `${label} timed out`; the operation is not told
OperationTimeout(t) ==
  /\ t \in DOMAIN tasks
  /\ tasks[t].pc = "race"
  /\ BodyEnds(t, tasks, FALSE, "", TimedOut(TimeoutLabel(tasks[t].action)))
  /\ UNCHANGED <<now, nextSweep, nreq, nextId, idempotency, rateLimitByAction,
                 obs, scene, lastResponse, retry, actionRateLimit>>

\* ServiceTimeout whose timer never fires
ServiceTimeoutNever(t) == FALSE

\* createSyncResult's timer (TOOL_SERVICE_TIMEOUT_MS) fires before the
\* handler's promise has settled: the request is answered, the task goes on
ServiceTimeout(t) ==
  /\ t \in DOMAIN tasks
  /\ tasks[t].job = 0
  /\ tasks[t].response.code = 0
  /\ tasks' = [tasks EXCEPT ![t].response =
                 SyncResponse(FALSE, "", TimedOut(tasks[t].action), tasks[t].request_id)]
  /\ UNCHANGED <<now, nextSweep, nreq, nextId, jobs, idempotency, rateLimitByAction,
                 sessions, jobLock, obs, scene, lastResponse, retry, actionRateLimit>>

(***************************************************************************)
(* withRetry: the backoff and the end of the attempts.                     *)
(***************************************************************************)
\* waitMs of withRetry that does not grow
WaitMsConstant(delayMs, attempt) == delayMs

\* const waitMs = delayMs * Math.pow(2, attempt)
WaitMs(delayMs, attempt) == delayMs * 2 ^ attempt

\* LastAttempt of a loop that never gives up
LastAttemptNever(attempt, retries) == FALSE

\* if (attempt >= retries) break
LastAttempt(attempt, retries) == attempt >= retries

(***************************************************************************)
(* The executor operations.                                                *)
(***************************************************************************)
\* normalizeStreamState(...).active of the device
ObsActive == obs \in {"active", "stopping"}

\* TargetActive that takes whatever state the device reports for the target
TargetActiveAsObserved(action) == ObsActive

\* the targetActive a start (stop) waits for
TargetActive(action) == action = START_STREAM

\* the status of a start (stop) that found the target state at once
AlreadyStatus(action) ==
  IF action = START_STREAM THEN "already_running" ELSE "already_stopped"

\* the status of a start (stop) whose poll found the target state
ReachedStatus(action) == IF action = START_STREAM THEN "running" ELSE "stopped"

\* the request type of the command of a start (stop)
CommandOf(action) == IF action = START_STREAM THEN "StartStream" ELSE "StopStream"

\* OBSStreamController.startStream: `await this.setScene(...)` with a scene
\* name: SetCurrentProgramScene is accepted, or it fails
ObsSetScene(t) ==
  /\ t \in DOMAIN tasks
  /\ tasks[t].op.pc = "scene"
  /\ \E reply \in {"ok", "error"} :
       LET sent == [tasks EXCEPT ![t].op.requests = @ \cup {"SetCurrentProgramScene"}]
       IN IF reply = "ok" THEN
            /\ scene' = SceneName(tasks[t].args)
            /\ tasks' = [sent EXCEPT ![t].op.pc = "check"]
            /\ UNCHANGED <<jobs, jobLock, sessions>>
          ELSE
            /\ OperationEnds(t, OpDone(sent, t, FALSE), FALSE, "", Failure("obs error"))
            /\ UNCHANGED scene
  /\ UNCHANGED <<now, nextSweep, nreq, nextId, idempotency, rateLimitByAction,
                 obs, lastResponse, retry, actionRateLimit>>

\* OBSStreamController.startStream / stopStream: `before = await getStreamState()`
ObsGetStreamState(t) ==
  /\ t \in DOMAIN tasks
  /\ tasks[t].op.pc = "check"
  /\ \E reply \in {"ok", "error"} :
       IF reply = "error"
         THEN OperationEnds(t, OpDone(tasks, t, FALSE), FALSE, "", Failure("obs error"))
       ELSE IF ObsActive = TargetActive(tasks[t].action)
         THEN OperationEnds(t, OpDone(tasks, t, TRUE), TRUE, AlreadyStatus(tasks[t].action), NoError)
       ELSE /\ tasks' = [tasks EXCEPT ![t].op.pc = "cmd"]
            /\ UNCHANGED <<jobs, jobLock, sessions>>
  /\ UNCHANGED <<now, nextSweep, nreq, nextId, idempotency, rateLimitByAction,
                 obs, scene, lastResponse, retry, actionRateLimit>>

\* the device after StartStream (StopStream) has been accepted
ObsAfterCommand(action) ==
  IF action = START_STREAM
  THEN (IF obs = "active" THEN "active" ELSE "starting")
  ELSE (IF obs = "inactive" THEN "inactive" ELSE "stopping")

\* one attempt of withRetry(() => this.call('StartStream' / 'StopStream')):
\* the command is accepted, or it fails and is retried (after the backoff
\* wait) while attempts are left
ObsCommand(t) ==
  /\ t \in DOMAIN tasks
  /\ tasks[t].op.pc = "cmd"
  /\ \E reply \in {"ok", "error"} :
       LET sent == [tasks EXCEPT ![t].op.requests = @ \cup {CommandOf(tasks[t].action)}]
       IN IF reply = "ok" THEN
            /\ obs' = ObsAfterCommand(tasks[t].action)
            /\ tasks' = [sent EXCEPT ![t].op.pc = "poll"]
            /\ UNCHANGED <<jobs, jobLock, sessions>>
          ELSE IF LastAttempt(tasks[t].op.attempt, OBS_OPERATION_RETRIES) THEN
            /\ OperationEnds(t, OpDone(sent, t, FALSE), FALSE, "", Failure("obs error"))
            /\ UNCHANGED obs
          ELSE
            /\ tasks' = [sent EXCEPT ![t].op.attempt = @ + 1]
            /\ UNCHANGED <<obs, jobs, jobLock, sessions>>
  /\ UNCHANGED <<now, nextSweep, nreq, nextId, idempotency, rateLimitByAction,
                 scene, lastResponse, retry, actionRateLimit>>

\* one round of ensureStreamState's loop: the state is polled, or (after
\* the first round) OBS_OPERATION_TIMEOUT_MS has passed
ObsPoll(t) ==
  /\ t \in DOMAIN tasks
  /\ tasks[t].op.pc = "poll"
  /\ \E reply \in {"ok", "error", "deadline"} :
       /\ reply = "deadline" => tasks[t].op.polled
       /\ IF reply = "deadline"
            THEN OperationEnds(t, OpDone(tasks, t, FALSE), FALSE, "",
                               Failure("timed out while waiting for OBS"))
          ELSE IF reply = "error"
            THEN OperationEnds(t, OpDone(tasks, t, FALSE), FALSE, "", Failure("obs error"))
          ELSE IF ObsActive = TargetActive(tasks[t].action)
            THEN OperationEnds(t, OpDone(tasks, t, TRUE), TRUE,
                               ReachedStatus(tasks[t].action), NoError)
          ELSE /\ tasks[t].op.polled = FALSE
               /\ tasks' = [tasks EXCEPT ![t].op.polled = TRUE]
               /\ UNCHANGED <<jobs, jobLock, sessions>>
  /\ UNCHANGED <<now, nextSweep, nreq, nextId, idempotency, rateLimitByAction,
                 obs, scene, lastResponse, retry, actionRateLimit>>

\* the OBS output finishes starting or stopping
ObsDevice ==
  /\ obs \in {"starting", "stopping"}
  /\ obs' = IF obs = "starting" THEN "active" ELSE "inactive"
  /\ UNCHANGED <<now, nextSweep, nreq, nextId, jobs, idempotency, rateLimitByAction,
                 sessions, jobLock, tasks, scene, lastResponse, retry, actionRateLimit>>

\* the status a Twitch operation returns
TwitchStatus(action) ==
  CASE action = SET_TITLE -> "updated"
    [] action = SET_GAME -> "updated"
    [] action = POST_CHAT_MESSAGE -> "posted"
    [] action = CREATE_CLIP -> "created"

\* the Twitch operation of a sync action returns or fails
TwitchCall(t) ==
  /\ t \in DOMAIN tasks
  /\ tasks[t].op.pc = "call"
  /\ \E ok \in BOOLEAN :
       OperationEnds(t, OpDone(tasks, t, ok), ok,
                     IF ok THEN TwitchStatus(tasks[t].action) ELSE "",
                     IF ok THEN NoError ELSE Failure("twitch api error"))
  /\ UNCHANGED <<now, nextSweep, nreq, nextId, idempotency, rateLimitByAction,
                 obs, scene, lastResponse, retry, actionRateLimit>>

(***************************************************************************)
(* withRetry.                                                              *)
(***************************************************************************)
\* one pass of the loop body up to its await or exit: fn is called; its
\* value is returned, or its error is kept and the loop breaks and throws
\* it, or the backoff wait begins
RetryCall ==
  /\ retry.pc = "call"
  /\ LET c == retry.calls + 1
         called == [retry EXCEPT !.calls = c]
     IN retry' =
          IF retry.outcomes[c] = "ok"
          THEN [called EXCEPT !.pc = "returned", !.result = c]
          ELSE IF LastAttempt(retry.attempt, retry.retries)
          THEN [called EXCEPT !.pc = "thrown", !.lastError = c, !.result = c]
          ELSE [called EXCEPT !.pc = "wait", !.lastError = c]
  /\ UNCHANGED <<now, nextSweep, nreq, nextId, jobs, idempotency, rateLimitByAction,
                 sessions, jobLock, tasks, obs, scene, lastResponse, actionRateLimit>>

\* `await wait(waitMs)` is over and the loop goes round: attempt += 1, and the
\* loop ends and throws lastError if attempt <= retries no longer holds
RetryWait ==
  /\ retry.pc = "wait"
  /\ LET waited == [retry EXCEPT !.waits = Append(@, WaitMs(retry.delayMs, retry.attempt)),
                                  !.attempt = @ + 1]
     IN retry' =
          IF waited.attempt <= waited.retries
          THEN [waited EXCEPT !.pc = "call"]
          ELSE [waited EXCEPT !.pc = "thrown", !.result = waited.lastError]
  /\ UNCHANGED <<now, nextSweep, nreq, nextId, jobs, idempotency, rateLimitByAction,
                 sessions, jobLock, tasks, obs, scene, lastResponse, actionRateLimit>>

(***************************************************************************)
(* Time and the sweep.                                                     *)
(***************************************************************************)
\* the clock advances by step milliseconds; a due sweep runs first
Tick(step) ==
  /\ now < nextSweep
  /\ now' = now + step
  /\ UNCHANGED <<nextSweep, nreq, nextId, jobs, idempotency, rateLimitByAction,
                 sessions, jobLock, tasks, obs, scene, lastResponse, retry, actionRateLimit>>

\* SweptJobs that keeps an expired job in the store and marks it failed
SweptJobsMarksExpired(js, t) ==
  [id \in DOMAIN js |->
     IF t - js[id].created_at > JOB_TTL_MS
     THEN failJob(js[id], Failure("expired"), t)
     ELSE js[id]]

\* SweptJobs that spares the jobs still in flight
SweptJobsSparesRunning(js, t) ==
  [id \in {i \in DOMAIN js : js[i].status = "running" \/ ~(t - js[i].created_at > JOB_TTL_MS)}
     |-> js[id]]

\* SweptJobs that measures the age of a job from its last update
SweptJobsByLastUpdate(js, t) ==
  [id \in {i \in DOMAIN js : ~(t - js[i].updated_at > JOB_TTL_MS)} |-> js[id]]

\* the jobs the sweep keeps
SweptJobs(js, t) ==
  [id \in {i \in DOMAIN js : ~(t - js[i].created_at > JOB_TTL_MS)} |-> js[id]]

\* SweptIdempotency that forgets every entry
SweptIdempotencyDropsAll(idem, js) == [key \in {} |-> 0]

\* SweptIdempotency that prunes nothing
SweptIdempotencyKeepsAll(idem, js) == idem

\* the idempotency entries the sweep keeps
SweptIdempotency(idem, js) ==
  [key \in {k \in DOMAIN idem : idem[k] \in DOMAIN js} |-> idem[key]]

\* the callback of setInterval(..., 60_000)
Sweep ==
  /\ now >= nextSweep
  /\ nextSweep' = nextSweep + SWEEP_INTERVAL_MS
  /\ jobs' = SweptJobs(jobs, now)
  /\ idempotency' = SweptIdempotency(idempotency, jobs')
  /\ UNCHANGED <<now, nreq, nextId, rateLimitByAction, sessions, jobLock, tasks,
                 obs, scene, lastResponse, retry, actionRateLimit>>

(***************************************************************************)
(* The specification.                                                      *)
(***************************************************************************)
Next ==
  \/ nreq < MaxRequests /\ \E payload \in Payloads : Execute(payload)
  \/ \E t \in 1..MaxRequests : LockGrant(t)
  \/ \E t \in 1..MaxRequests : SetMetadataDone(t)
  \/ \E t \in 1..MaxRequests : OperationTimeout(t)
  \/ \E t \in 1..MaxRequests : ServiceTimeout(t)
  \/ \E t \in 1..MaxRequests : ObsSetScene(t)
  \/ \E t \in 1..MaxRequests : ObsGetStreamState(t)
  \/ \E t \in 1..MaxRequests : ObsCommand(t)
  \/ \E t \in 1..MaxRequests : ObsPoll(t)
  \/ \E t \in 1..MaxRequests : TwitchCall(t)
  \/ ObsDevice
  \/ now < MaxTicks * SWEEP_INTERVAL_MS /\ Tick(SWEEP_INTERVAL_MS)
  \/ Sweep

Spec == Init /\ [][Next]_vars

\* Timers fire and settled promises run their reactions: a granted lock,
\* withTimeout's timer and the abort timer of the Twitch request are not
\* postponed forever.  The device and the network are under no obligation.
Fairness ==
  \A t \in 1..MaxRequests :
    /\ WF_vars(LockGrant(t))
    /\ WF_vars(OperationTimeout(t))
    /\ WF_vars(SetMetadataDone(t))

FairSpec == Spec /\ Fairness

\* Well-formed requests and the clock alone: more requests than the limit
\* admits arrive within a window and across window boundaries, their
\* handlers still waiting for the event loop.
NextRate ==
  \/ nreq < MaxRateRequests /\ \E payload \in RatePayloads : Execute(payload)
  \/ now < MaxRateTicks * (RATE_WINDOW_MS \div 2) /\ Tick(RATE_WINDOW_MS \div 2)
  \/ Sweep

SpecRate == Init /\ [][NextRate]_vars

(***************************************************************************)
(* GET /tools/jobs/:id                                                     *)
(***************************************************************************)
\* the answer of the route for job id `id`
GetJob(id) ==
  IF id \notin DOMAIN jobs
  THEN Response(404, FALSE, Failure("job not found"), 0, "", NoProgress, NoId)
  ELSE Response(200, TRUE, NoError, jobs[id].id, jobs[id].status,
                jobs[id].progress, jobs[id].request_id)

\* Jobs of every age and status under the sweep: start and stop requests
\* arrive while the clock advances in steps of the job lifetime, the lock is
\* granted or not, and a granted operation is answered, times out or hangs.
NextSweep ==
  \/ nreq < MaxSweepRequests /\ \E payload \in RatePayloads : Execute(payload)
  \/ \E t \in 1..MaxSweepRequests : LockGrant(t)
  \/ \E t \in 1..MaxSweepRequests : SetMetadataDone(t)
  \/ \E t \in 1..MaxSweepRequests : OperationTimeout(t)
  \/ \E t \in 1..MaxSweepRequests : ObsGetStreamState(t)
  \/ now < MaxSweepTicks * JOB_TTL_MS /\ Tick(JOB_TTL_MS)
  \/ Sweep

SpecSweep == Init /\ [][NextSweep]_vars

\* Requests without request_id and the clock: they arrive within a rate
\* window and after it, before and after the sweep has evicted their jobs.
NextDedup ==
  \/ nreq < MaxDedupRequests /\ \E payload \in DedupPayloads : Execute(payload)
  \/ now < MaxDedupTicks * RATE_WINDOW_MS /\ Tick(RATE_WINDOW_MS)
  \/ Sweep

SpecDedup == Init /\ [][NextDedup]_vars

\* Sync actions next to an async one: the requests are handled, their Twitch
\* calls return or fail, and the timers fire.
NextSync ==
  \/ nreq < MaxSyncRequests /\ \E payload \in SyncPayloads : Execute(payload)
  \/ \E t \in 1..MaxSyncRequests : LockGrant(t)
  \/ \E t \in 1..MaxSyncRequests : OperationTimeout(t)
  \/ \E t \in 1..MaxSyncRequests : ServiceTimeout(t)
  \/ \E t \in 1..MaxSyncRequests : ObsGetStreamState(t)
  \/ \E t \in 1..MaxSyncRequests : TwitchCall(t)

SpecSync == Init /\ [][NextSync]_vars

\* The sync path with its timers: the timer of createSyncResult fires if
\* the handler's promise has not settled by then.
FairSync == \A t \in 1..MaxSyncRequests : WF_vars(ServiceTimeout(t))

FairSpecSync == SpecSync /\ FairSync

\* withRetry on its own: every `retries` from -1 (the loop body never runs
\* and undefined is thrown) to MaxRetries, base delays of 0, 250 and 400 ms,
\* and every pattern of returning and throwing calls of fn.
InitRetry ==
  /\ now = 0
  /\ nextSweep = SWEEP_INTERVAL_MS
  /\ nreq = 0
  /\ nextId = 1
  /\ jobs = EmptyMap
  /\ idempotency = EmptyMap
  /\ rateLimitByAction = EmptyMap
  /\ sessions = EmptyMap
  /\ jobLock = EmptyMap
  /\ tasks = EmptyMap
  /\ obs = "inactive"
  /\ scene = <<>>
  /\ lastResponse = NoResponse
  /\ \E retries \in -1..MaxRetries, delayMs \in {0, 250, 400},
        outcomes \in [1..(MaxRetries + 1) -> {"ok", "err"}] :
       retry = RetryState(retries, delayMs, outcomes,
                          IF 0 <= retries THEN "call" ELSE "thrown")
  /\ actionRateLimit = ACTION_RATE_LIMIT_PER_MIN

NextRetry ==
  \/ RetryCall
  \/ RetryWait

SpecRetry == InitRetry /\ [][NextRetry]_vars

\* The service under every configured limit from 0 to the default of the
\* model: start and stop requests arrive within a window and after it.
InitLimit ==
  /\ now = 0
  /\ nextSweep = SWEEP_INTERVAL_MS
  /\ nreq = 0
  /\ nextId = 1
  /\ jobs = EmptyMap
  /\ idempotency = EmptyMap
  /\ rateLimitByAction = EmptyMap
  /\ sessions = EmptyMap
  /\ jobLock = EmptyMap
  /\ tasks = EmptyMap
  /\ obs = "inactive"
  /\ scene = <<>>
  /\ lastResponse = NoResponse
  /\ retry = NoRetry
  /\ actionRateLimit \in 0..ACTION_RATE_LIMIT_PER_MIN

NextLimit ==
  \/ nreq < MaxLimitRequests /\ \E payload \in RatePayloads : Execute(payload)
  \/ now < MaxLimitTicks * RATE_WINDOW_MS /\ Tick(RATE_WINDOW_MS)
  \/ Sweep

SpecLimit == InitLimit /\ [][NextLimit]_vars

\* twitch.set_game requests of every shape: they are validated, and the
\* accepted ones take the agent lock and call Twitch.
NextGame ==
  \/ nreq < MaxGameRequests /\ \E payload \in GamePayloads : Execute(payload)
  \/ \E t \in 1..MaxGameRequests : LockGrant(t)
  \/ \E t \in 1..MaxGameRequests : TwitchCall(t)

SpecGame == Init /\ [][NextGame]_vars

\* The clock between two statements of the request handler: createJob
\* stamps the job, the clock may move on, executeAsyncToolAction is entered;
\* the action then runs to its end.
NextStamp ==
  \/ nreq < MaxStampRequests /\ \E payload \in RatePayloads :
       \E elapsed \in 0..MaxElapsed : ExecuteIn(payload, elapsed)
  \/ \E t \in 1..MaxStampRequests : LockGrant(t)
  \/ \E t \in 1..MaxStampRequests : OperationTimeout(t)
  \/ \E t \in 1..MaxStampRequests : ObsGetStreamState(t)

SpecStamp == Init /\ [][NextStamp]_vars

\* Two agents on the one OBS device: their start and stop operations ask
\* the device for its state, send their command and poll, each in its turn.
NextDevice ==
  \/ nreq < MaxDeviceRequests /\ \E payload \in DevicePayloads : Execute(payload)
  \/ \E t \in 1..MaxDeviceRequests : LockGrant(t)
  \/ \E t \in 1..MaxDeviceRequests : ObsGetStreamState(t)
  \/ \E t \in 1..MaxDeviceRequests : ObsCommand(t)
  \/ \E t \in 1..MaxDeviceRequests : ObsPoll(t)
  \/ ObsDevice

SpecDevice == Init /\ [][NextDevice]_vars

(***************************************************************************)
(* Properties.                                                             *)
(***************************************************************************)
\* the executor operation of task t (the Twitch metadata update, the OBS
\* sequence or the Twitch call started inside the agent lock) is in progress
ExecutorInProgress(t) ==
  \/ tasks[t].pc = "metadata"
  \/ tasks[t].op.pc \in {"scene", "check", "cmd", "poll", "call"}

\* the body of task t is executing: it holds the agent lock
BodyExecuting(t) == tasks[t].pc \in {"metadata", "race"}

SameAgent(t1, t2) == tasks[t1].agent = tasks[t2].agent

\* C1 (as claimed): a second POST /tools/execute with the action and the
\* request_id of a job that is still in the store returns that job's id,
\* creates no job and no idempotency entry, and invokes no handler.
C1_Idempotence ==
  [][\A p \in ValidPayloads : \A t \in DOMAIN tasks :
       ( /\ Execute(p)
         /\ p.action \in ASYNC_TOOL_ACTIONS
         /\ Trim(p.request_id) # <<>>
         /\ tasks[t].job \in DOMAIN jobs
         /\ tasks[t].request.action = p.action
         /\ tasks[t].request.request_id = Trim(p.request_id) )
       => /\ lastResponse'.code = 202
          /\ lastResponse'.job_id = tasks[t].job
          /\ DOMAIN jobs' = DOMAIN jobs
          /\ idempotency' = idempotency
          /\ tasks' = tasks]_vars

\* C2 (as claimed): at most one executor operation of an agent is in
\* progress at any time, also when an operation exceeds its timeout.
C2_OneOperationPerAgent ==
  \A t1 \in DOMAIN tasks : \A t2 \in DOMAIN tasks :
    (t1 # t2 /\ SameAgent(t1, t2))
      => ~(ExecutorInProgress(t1) /\ ExecutorInProgress(t2))

\* C2 (amended): the body of a later request of an agent starts only after
\* the body of every earlier request of that agent has ended (returned,
\* thrown or timed out), so at most one body of an agent executes at a
\* time; two executor operations of an agent are in progress together only
\* when the earlier one was abandoned by its timeout.
C2_Serialized ==
  \A t1 \in DOMAIN tasks : \A t2 \in DOMAIN tasks :
    (t1 < t2 /\ SameAgent(t1, t2))
      => /\ tasks[t2].ran => tasks[t1].pc = "end"
         /\ ~(BodyExecuting(t1) /\ BodyExecuting(t2))
         /\ (ExecutorInProgress(t1) /\ ExecutorInProgress(t2))
              => tasks[t1].error = TimedOut(TimeoutLabel(tasks[t1].action))

\* C2 witness: the operation of a timed-out action is still in progress
\* while the operation of the agent's next action is in progress
C2_Witness ==
  \E t1 \in DOMAIN tasks : \E t2 \in DOMAIN tasks :
    /\ t1 < t2
    /\ SameAgent(t1, t2)
    /\ tasks[t1].error.kind = "timed out"
    /\ ExecutorInProgress(t1)
    /\ BodyExecuting(t2)
    /\ ExecutorInProgress(t2)

\* C3 (as claimed): when timers fire, every action submitted to the agent
\* lock eventually has its body executed, whether the action queued before
\* it succeeded, threw or timed out.
C3_BodyEventuallyRuns ==
  \A t \in 1..MaxRequests :
    (t \in DOMAIN tasks) ~> (t \in DOMAIN tasks /\ tasks[t].ran)

\* C5 (as claimed): the response to a newly admitted async request carries
\* the new job's id with status queued and progress 5% (queued).
C5_QueuedResponse ==
  [][DOMAIN jobs' # DOMAIN jobs /\ nreq' # nreq
       => /\ lastResponse'.code = 202
          /\ lastResponse'.job_id \in DOMAIN jobs' \ DOMAIN jobs
          /\ lastResponse'.status = "queued"
          /\ lastResponse'.progress = buildProgress(5, "queued")]_vars

\* C7 (as claimed): a job whose handler waits behind an unfinished action
\* of the same agent has status queued.
C7_QueuedWhileWaiting ==
  \A t \in DOMAIN tasks :
    ( /\ tasks[t].job \in DOMAIN jobs
      /\ tasks[t].pc = "waiting"
      /\ tasks[t].prior # 0
      /\ tasks[tasks[t].prior].lock = "pending" )
    => jobs[tasks[t].job].status = "queued"

\* C6: a job's status only moves queued -> running -> done or failed; a
\* job that is done or failed keeps its status under every later step (late
\* completion of its operation, timeouts, sweep, replayed requests), and a
\* job enters the store queued or running.
C6_Lifecycle ==
  [][ /\ \A j \in DOMAIN jobs \cap DOMAIN jobs' :
           /\ jobs[j].status \in {"done", "failed"}
                => jobs'[j].status = jobs[j].status
           /\ jobs[j].status = "running"
                => jobs'[j].status \in {"running", "done", "failed"}
           /\ jobs[j].status = "queued"
                => jobs'[j].status \in {"queued", "running"}
      /\ \A j \in DOMAIN jobs' \ DOMAIN jobs :
           jobs'[j].status \in {"queued", "running"} ]_vars

\* C6 witness: a job failed by a timeout whose operation has completed
\* successfully afterwards
C6_Witness ==
  \E t \in DOMAIN tasks :
    /\ tasks[t].job \in DOMAIN jobs
    /\ jobs[tasks[t].job].status = "failed"
    /\ tasks[t].error.kind = "timed out"
    /\ tasks[t].op.pc = "ok"

\* C9: a request that fails validation is answered 400 and changes nothing:
\* no job, no idempotency entry, no rate-limit slot, no session, no lock, no
\* handler call and no device command.
C9_ValidationNoSideEffect ==
  [][\A p \in InvalidPayloads :
       Execute(p)
         => /\ lastResponse'.code = 400
            /\ UNCHANGED <<jobs, idempotency, rateLimitByAction, sessions,
                           jobLock, tasks, obs, scene, nextId>>]_vars

\* C9 witness: a request has been rejected by validation after another
\* request was admitted
C9_Witness ==
  /\ lastResponse.code = 400
  /\ DOMAIN rateLimitByAction # {}
  /\ DOMAIN tasks # {}

\* an async request without request_id, mission_id and correlation_id
Anonymous(p) ==
  /\ p.action \in ASYNC_TOOL_ACTIONS
  /\ Trim(p.request_id) = <<>>
  /\ Trim(p.mission_id) = <<>>
  /\ Trim(p.correlation_id) = <<>>

\* C10: an async request carrying none of request_id, mission_id and
\* correlation_id is answered 400 and creates no job, and every job was
\* created from a request that carried at least one of the three.
C10_IdentityRequired ==
  [][ /\ \A p \in Payloads :
           (Execute(p) /\ Anonymous(p))
             => lastResponse'.code = 400 /\ jobs' = jobs /\ tasks' = tasks
      /\ \A t \in DOMAIN tasks' :
           tasks'[t].job # 0
             => \/ tasks'[t].request.request_id # <<>>
                \/ tasks'[t].request.mission_id # <<>>
                \/ tasks'[t].request.correlation_id # <<>> ]_vars

\* C10 witness: an anonymous async request has been rejected while a job
\* created from an identified request is in the store
C10_Witness ==
  /\ lastResponse.code = 400
  /\ lastResponse.error = Failure("request_id required for async action")
  /\ DOMAIN jobs # {}

\* a job of task t is settled: the handler has ended and the job, unless
\* the sweep has evicted it, is done or failed
JobSettled(t) ==
  /\ t \in DOMAIN tasks
  /\ tasks[t].pc = "end"
  /\ tasks[t].job \in DOMAIN jobs
       => jobs[tasks[t].job].status \in {"done", "failed"}

\* C4: when timers fire, every job created by an admitted async request
\* eventually is done or failed, whatever its operation does (succeeds,
\* fails, never returns) and whatever is queued before it for its agent.
C4_JobsTerminate ==
  \A t \in 1..MaxRequests :
    (t \in DOMAIN tasks /\ tasks[t].job # 0) ~> JobSettled(t)

\* C4 witness: a job that was queued behind an earlier action of its agent
\* has reached done or failed
C4_Witness ==
  \E t \in DOMAIN tasks :
    /\ tasks[t].prior # 0
    /\ tasks[t].job \in DOMAIN jobs
    /\ tasks[t].pc = "end"
    /\ jobs[tasks[t].job].status \in {"done", "failed"}

\* the bucket of action a is in its window at the current time
InWindow(a) ==
  /\ a \in DOMAIN rateLimitByAction
  /\ now - rateLimitByAction[a].start < RATE_WINDOW_MS

\* C8: per action name and 60-second window at most
\* ACTION_RATE_LIMIT_PER_MIN requests are admitted, whichever agents send
\* them: a valid request that finds the bucket in its window and at
\* capacity is answered 429 and admits nothing; one that finds it below
\* capacity is admitted and counted; the first one after the window has
\* rolled over is admitted and opens a new window with count 1; the count
\* never exceeds the limit.
C8_RateLimit ==
  [][ /\ \A a \in DOMAIN rateLimitByAction' :
           rateLimitByAction'[a].count <= ACTION_RATE_LIMIT_PER_MIN
      /\ \A p \in RatePayloads :
           Execute(p) =>
             LET a == p.action
                 count == IF InWindow(a) THEN rateLimitByAction[a].count ELSE 0
             IN IF count >= ACTION_RATE_LIMIT_PER_MIN
                THEN /\ lastResponse'.code = 429
                     /\ UNCHANGED <<jobs, idempotency, tasks, jobLock>>
                     /\ rateLimitByAction'[a].count = count
                ELSE /\ lastResponse'.code # 429
                     /\ rateLimitByAction'[a].count = count + 1
                     /\ rateLimitByAction'[a].start =
                          IF InWindow(a) THEN rateLimitByAction[a].start ELSE now
    ]_vars

\* C8 witness: agents b1 and b2 filled a window of twitch.start_stream, the
\* next request found it at capacity and left no handler behind, and after
\* the window rolled over one more request was admitted and opened a new
\* window
C8_Witness ==
  LET rejected == ACTION_RATE_LIMIT_PER_MIN + 1 IN
  /\ nreq = rejected + 1
  /\ DOMAIN tasks = (1..nreq) \ {rejected}
  /\ tasks[1].agent # tasks[2].agent
  /\ DOMAIN rateLimitByAction = {START_STREAM}
  /\ rateLimitByAction[START_STREAM].start >= RATE_WINDOW_MS
  /\ rateLimitByAction[START_STREAM].count = 1


\* C11: a job created at time T is gone from the store, and GET
\* /tools/jobs/:id answers 404 'job not found', whenever the clock reads more
\* than T + JOB_TTL_MS + SWEEP_INTERVAL_MS, whatever the status of the job.
C11_Evicted ==
  \A t \in DOMAIN tasks :
    (tasks[t].job # 0 /\ now > tasks[t].started + JOB_TTL_MS + SWEEP_INTERVAL_MS)
      => /\ tasks[t].job \notin DOMAIN jobs
         /\ GetJob(tasks[t].job).code = 404
         /\ GetJob(tasks[t].job).error = Failure("job not found")

\* a job created at JOB_TTL_MS, which the sweep at SWEEP_INTERVAL_MS has
\* kept, is gone after the deadline although its action never finished
C11_Witness ==
  \E t \in DOMAIN tasks :
    /\ tasks[t].job # 0
    /\ tasks[t].started = JOB_TTL_MS
    /\ tasks[t].pc # "end"
    /\ now > tasks[t].started + JOB_TTL_MS + SWEEP_INTERVAL_MS
    /\ GetJob(tasks[t].job).code = 404

\* C12 (as claimed): a twitch.stop_stream whose body finds the session of its
\* agent in state stopped sends no StopStream to the device and, when it
\* returns, returns status already_stopped, whatever other agents have done.
C12_StoppedShortCircuits ==
  \A t \in DOMAIN tasks :
    (tasks[t].action = STOP_STREAM /\ tasks[t].found = "stopped")
      => /\ "StopStream" \notin tasks[t].op.requests
         /\ (tasks[t].pc = "end" /\ tasks[t].lock = "fulfilled")
              => tasks[t].status = "already_stopped"

\* C13 (as claimed): a twitch.start_stream that returns already_running, the
\* stream having been active when its operation first asked, has sent no
\* state-changing request to the device.
C13_AlreadyRunningNoCommand ==
  \A t \in DOMAIN tasks :
    (tasks[t].action = START_STREAM /\ tasks[t].status = "already_running")
      => tasks[t].op.requests = {}

\* C14: a sync action never has a job; when its handler promise is rejected
\* (the Twitch call failed, the operation timed out) or the service timer
\* fires first, the request is answered 500 with ok false, status failed and
\* the error message; it is answered 200 only on success; no other answer
\* leaves the handler.
C14_SyncFailure ==
  /\ \A j \in DOMAIN jobs : jobs[j].action \in ASYNC_TOOL_ACTIONS
  /\ \A t \in DOMAIN tasks :
       tasks[t].action \notin ASYNC_TOOL_ACTIONS =>
         LET r == tasks[t].response
         IN /\ tasks[t].job = 0
            /\ r.job_id = 0
            /\ r.code \in {0, 200, 500}
            /\ (tasks[t].pc = "end" /\ tasks[t].lock = "rejected") =>
                 /\ r.code = 500
                 /\ r.error \in {tasks[t].error, TimedOut(tasks[t].action)}
            /\ r.code = 500 =>
                 /\ ~r.ok
                 /\ r.status = "failed"
                 /\ r.error # NoError
                 /\ r.request_id = tasks[t].request_id
            /\ r.code = 200 =>
                 /\ r.ok
                 /\ r.status = TwitchStatus(tasks[t].action)
                 /\ tasks[t].lock = "fulfilled"

\* one sync request answered 500 with the error of its failed Twitch call,
\* another answered 500 because the service timer fired, and no job
C14_Witness ==
  /\ jobs = EmptyMap
  /\ \E t1, t2 \in DOMAIN tasks :
       /\ tasks[t1].action = SET_TITLE
       /\ tasks[t1].op.pc = "err"
       /\ tasks[t1].response.code = 500
       /\ tasks[t1].response.error = Failure("twitch api error")
       /\ tasks[t2].action = SET_TITLE
       /\ tasks[t2].response.code = 500
       /\ tasks[t2].response.error = TimedOut(tasks[t2].action)

\* C15 (as claimed): a job is failed only by the failure of its own action:
\* the body of its action ran and ended with an error, and result.error is
\* that error; the failure of one action leaves the other requests alone.
C15_FailureContained ==
  \A t \in DOMAIN tasks :
    (tasks[t].job \in DOMAIN jobs /\ jobs[tasks[t].job].status = "failed")
      => /\ tasks[t].ran
         /\ tasks[t].error # NoError
         /\ jobs[tasks[t].job].result.error = tasks[t].error

\* C16: a timeout does not abort the operation.  The step in which
\* withTimeout's timer, or the service timer of a sync request, fires leaves
\* the operation where it was and the device untouched, so that the
\* operation goes on after the action has been reported failed.
C16_TimeoutDoesNotAbort ==
  [][\A t \in DOMAIN tasks :
       (OperationTimeout(t) \/ ServiceTimeout(t))
         => /\ tasks'[t].op = tasks[t].op
            /\ UNCHANGED <<obs, scene>>]_vars

\* the start job of an agent was failed with 'start stream timed out'; a
\* stop of the same agent, submitted after that (it found the lock free),
\* found no active stream; and the timed-out operation, having sent
\* StartStream, has since run to completion with the stream active
C16_Witness ==
  \E t1, t2 \in DOMAIN tasks :
    /\ tasks[t1].action = START_STREAM
    /\ tasks[t1].error = TimedOut(TimeoutLabel(START_STREAM))
    /\ tasks[t1].job \in DOMAIN jobs
    /\ jobs[tasks[t1].job].status = "failed"
    /\ jobs[tasks[t1].job].result.error = TimedOut(TimeoutLabel(START_STREAM))
    /\ tasks[t2].action = STOP_STREAM
    /\ t1 < t2
    /\ SameAgent(t1, t2)
    /\ tasks[t2].prior = 0
    /\ tasks[t2].status = "already_stopped"
    /\ tasks[t1].op.pc = "ok"
    /\ "StartStream" \in tasks[t1].op.requests
    /\ obs = "active"

\* C17: for one agent, bodies start in submission order: when the callback of
\* a request has been called, no earlier request of the same agent, sync or
\* async, is still waiting for its turn.
C17_Fifo ==
  \A t1, t2 \in DOMAIN tasks :
    (t1 < t2 /\ SameAgent(t1, t2) /\ tasks[t2].ran) =>
      /\ tasks[t1].pc # "waiting"
      /\ tasks[t1].ran \/ tasks[t1].lock = "rejected"

\* an async and a sync request of one agent, the second submitted while the
\* first was queued or executing, have both run
C17_Witness ==
  \E t1, t2 \in DOMAIN tasks :
    /\ t1 < t2
    /\ SameAgent(t1, t2)
    /\ tasks[t1].action \in ASYNC_TOOL_ACTIONS
    /\ tasks[t2].action \notin ASYNC_TOOL_ACTIONS
    /\ tasks[t2].prior = t1
    /\ tasks[t1].ran
    /\ tasks[t2].ran

\* C18: the serializer makes a request wait only for requests of its own
\* agent: the promise a request is chained on belongs to the same agent, and
\* a waiting request with no unsettled earlier request of its agent can be
\* granted at once, whatever the actions of other agents are doing.
C18_AgentsIndependent ==
  \A t \in DOMAIN tasks :
    /\ tasks[t].prior # 0 => SameAgent(t, tasks[t].prior)
    /\ ( /\ tasks[t].pc = "waiting"
         /\ \A t1 \in DOMAIN tasks :
              (t1 < t /\ SameAgent(t1, t)) => tasks[t1].lock # "pending" )
       => ENABLED LockGrant(t)

\* the body of an action of one agent is executing while the body of an
\* earlier action of another agent is still executing
C18_Witness ==
  \E t1, t2 \in DOMAIN tasks :
    /\ t1 < t2
    /\ ~SameAgent(t1, t2)
    /\ BodyExecuting(t1)
    /\ BodyExecuting(t2)

\* C19: a sweep only deletes: every job in the store after the sweep was
\* there before and is the same record (status, progress, result and all),
\* and the sweep starts or advances no operation and leaves the sessions,
\* the agent locks and the device alone.
C19_SweepOnlyDeletes ==
  [][Sweep =>
       /\ DOMAIN jobs' \subseteq DOMAIN jobs
       /\ \A id \in DOMAIN jobs' : jobs'[id] = jobs[id]
       /\ UNCHANGED <<tasks, sessions, jobLock, obs, scene>>]_vars

\* a sweep has run: it deleted an expired job and kept the job of an action
\* whose body is executing, still running
C19_Witness ==
  /\ nextSweep > SWEEP_INTERVAL_MS
  /\ \E t1, t2 \in DOMAIN tasks :
       /\ tasks[t1].job # 0
       /\ tasks[t1].job \notin DOMAIN jobs
       /\ tasks[t2].job \in DOMAIN jobs
       /\ BodyExecuting(t2)
       /\ jobs[tasks[t2].job].status = "running"

\* C20 (as claimed): a failed Twitch metadata update does not fail a
\* twitch.start_stream: a start whose body ran never ends with the error of
\* the metadata update, and its job is failed only after its OBS operation
\* has been started.
C20_StartSurvivesMetadataFailure ==
  \A t \in DOMAIN tasks :
    (tasks[t].action = START_STREAM /\ tasks[t].ran /\ tasks[t].pc = "end")
      => /\ tasks[t].error # Failure("twitch api error")
         /\ (tasks[t].job \in DOMAIN jobs /\ jobs[tasks[t].job].status = "failed")
              => tasks[t].op.pc # "none"

\* the identifier a request or a job without request_id is deduplicated by:
\* its mission_id, else its correlation_id
FallbackIdentifier(missionId, correlationId) ==
  IF missionId # <<>> THEN missionId ELSE correlationId

\* C21: an admitted async request without request_id resolves to the job in
\* the store that has its action, its agent_id and its mission_id (else
\* correlation_id) if there is one, and the store is left as it was;
\* otherwise, so when it differs from every stored job in agent_id, action
\* or that identifier, it resolves to a new job.
C21_FallbackDedup ==
  [][\A p \in DedupPayloads :
       (Execute(p) /\ lastResponse'.code = 202) =>
         LET n == validateActionPayload(p).normalized
             same == {j \in DOMAIN jobs :
                        /\ jobs[j].action = n.action
                        /\ jobs[j].agent_id = n.agent_id
                        /\ FallbackIdentifier(jobs[j].mission_id, jobs[j].correlation_id)
                             = FallbackIdentifier(n.mission_id, n.correlation_id)}
         IN IF same # {}
            THEN /\ lastResponse'.job_id \in same
                 /\ jobs' = jobs
                 /\ Cardinality(same) = 1
            ELSE /\ lastResponse'.job_id \notin DOMAIN jobs
                 /\ lastResponse'.job_id \in DOMAIN jobs']_vars

\* two start requests with mission m1 of different agents have two jobs, and
\* a third request, of the first agent with mission m1, was answered with
\* the first job
C21_Witness ==
  /\ nreq = 3
  /\ DOMAIN tasks = {1, 2}
  /\ tasks[1].action = START_STREAM
  /\ tasks[2].action = START_STREAM
  /\ tasks[1].agent # tasks[2].agent
  /\ tasks[1].request.mission_id = m1
  /\ tasks[2].request.mission_id = m1
  /\ tasks[1].job # tasks[2].job
  /\ tasks[1].job \in DOMAIN jobs
  /\ lastResponse.code = 202
  /\ lastResponse.job_id = tasks[1].job

\* C22: every job in the store has action twitch.start_stream or
\* twitch.stop_stream, and no step of the handling of a sync action (the
\* request handler, the lock, the Twitch call, the timers) changes the job
\* store or the idempotency index.
C22_JobsOnlyForAsync ==
  [][/\ \A j \in DOMAIN jobs' : jobs'[j].action \in {START_STREAM, STOP_STREAM}
     /\ \A p \in SyncPayloads :
          (p.action \notin {START_STREAM, STOP_STREAM} /\ Execute(p))
            => UNCHANGED <<jobs, idempotency>>
     /\ \A t \in DOMAIN tasks :
          ( /\ tasks[t].action \notin {START_STREAM, STOP_STREAM}
            /\ LockGrant(t) \/ OperationTimeout(t) \/ ServiceTimeout(t) \/ TwitchCall(t) )
            => UNCHANGED <<jobs, idempotency>>]_vars

\* a sync and an async request under the same request_id have been handled,
\* the sync one answered 200: the store holds the one job of the async action
C22_Witness ==
  \E t1, t2 \in DOMAIN tasks :
    /\ tasks[t1].action = SET_TITLE
    /\ tasks[t1].request.request_id = req1
    /\ tasks[t1].response.code = 200
    /\ tasks[t2].action = STOP_STREAM
    /\ tasks[t2].request.request_id = req1
    /\ DOMAIN jobs = {tasks[t2].job}
    /\ Cardinality(DOMAIN idempotency) = 1

\* C23: withRetry calls fn at most retries + 1 times; between the failed
\* attempt k and the next it waits delayMs * 2^k, and it does not wait after
\* the last attempt; it returns the value of the first call that succeeds
\* and calls no more; when every attempt fails it throws the error of the
\* last one.
C23_WithRetry ==
  /\ retry.calls <= retry.retries + 1
  /\ \A k \in 1..Len(retry.waits) : retry.waits[k] = retry.delayMs * 2 ^ (k - 1)
  /\ retry.pc = "call" => Len(retry.waits) = retry.calls
  /\ retry.pc \in {"wait", "returned", "thrown"} /\ retry.calls > 0
       => Len(retry.waits) = retry.calls - 1
  /\ retry.pc = "returned" =>
       /\ retry.outcomes[retry.calls] = "ok"
       /\ \A c \in 1..(retry.calls - 1) : retry.outcomes[c] = "err"
       /\ retry.result = retry.calls
       /\ ~ENABLED RetryCall
  /\ retry.pc = "thrown" /\ retry.retries >= 0 =>
       /\ retry.calls = retry.retries + 1
       /\ \A c \in 1..retry.calls : retry.outcomes[c] = "err"
       /\ retry.result = retry.calls
       /\ ~ENABLED RetryCall

\* with retries = 3 and delayMs = 250 the third call succeeded after waits of
\* 250 and 500 ms, although the fourth would have succeeded too
C23_Witness ==
  /\ retry.retries = 3
  /\ retry.delayMs = 250
  /\ retry.pc = "returned"
  /\ retry.result = 3
  /\ retry.calls = 3
  /\ retry.waits = <<250, 500>>
  /\ retry.outcomes[4] = "ok"

\* C24: within one start or stop job the body of the runtime handler is
\* entered once; the command is issued at most OBS_OPERATION_RETRIES + 1
\* times; once the command has been accepted the operation never goes back
\* to its scene, check or command steps and sends nothing more, and a poll
\* that fails or runs out of time while the body awaits it fails the job.
C24_OnlyCommandRetried ==
  [][\A t \in DOMAIN tasks :
       /\ tasks'[t].op.attempt <= OBS_OPERATION_RETRIES
       /\ tasks[t].ran => ~LockGrant(t)
       /\ tasks[t].op.pc \in {"poll", "ok", "err"} =>
            /\ tasks'[t].op.pc \in {"poll", "ok", "err"}
            /\ tasks'[t].op.attempt = tasks[t].op.attempt
            /\ tasks'[t].op.requests = tasks[t].op.requests
       /\ ( /\ tasks[t].op.pc = "poll"
            /\ tasks'[t].op.pc = "err"
            /\ tasks[t].pc = "race"
            /\ tasks[t].job \in DOMAIN jobs )
            => jobs'[tasks[t].job].status = "failed"]_vars

\* a start job whose command was accepted at the last attempt allowed and
\* whose poll loop then ran out of time: the job is failed with the poll's
\* error
C24_Witness ==
  \E t \in DOMAIN tasks :
    /\ tasks[t].action = START_STREAM
    /\ tasks[t].op.attempt = OBS_OPERATION_RETRIES
    /\ tasks[t].op.requests = {"StartStream"}
    /\ tasks[t].op.pc = "err"
    /\ tasks[t].job \in DOMAIN jobs
    /\ jobs[tasks[t].job].status = "failed"
    /\ jobs[tasks[t].job].result.error = Failure("timed out while waiting for OBS")

\* C25: every idempotency entry refers to a job that is in the job store, in
\* every state between handler steps and sweep runs.
C25_NoOrphanedEntry ==
  \A key \in DOMAIN idempotency : idempotency[key] \in DOMAIN jobs

\* a sweep has evicted the job of one request together with its idempotency
\* entry, and kept the job and the entry of another
C25_Witness ==
  /\ nextSweep > SWEEP_INTERVAL_MS
  /\ \E t1, t2 \in DOMAIN tasks :
       /\ tasks[t1].job # 0
       /\ tasks[t1].job \notin DOMAIN jobs
       /\ IdempotencyKey(tasks[t1].action, tasks[t1].request_id) \notin DOMAIN idempotency
       /\ tasks[t2].job \in DOMAIN jobs
       /\ IdempotencyKey(tasks[t2].action, tasks[t2].request_id) \in DOMAIN idempotency
       /\ idempotency[IdempotencyKey(tasks[t2].action, tasks[t2].request_id)] = tasks[t2].job

\* C26 (as claimed): a request the rate limiter rejects (answered 429) leaves
\* the rate buckets, the job store, the idempotency index and the sessions
\* as they were, whatever limit is configured.
C26_RejectionChangesNothing ==
  [][\A p \in RatePayloads :
       (Execute(p) /\ lastResponse'.code = 429)
         => UNCHANGED <<rateLimitByAction, jobs, idempotency, sessions>>]_vars

\* C27 (as claimed): the chain map holds an entry for an agent only while an
\* action of that agent is waiting or executing.
C27_ChainMapCleared ==
  \A agentId \in DOMAIN jobLock :
    \E t \in DOMAIN tasks : tasks[t].agent = agentId /\ tasks[t].pc # "end"

\* C28 (as claimed): a start (stop) submitted while another start (stop) of
\* the same agent was still in flight ends short-circuited: its body found
\* the session starting (stopping), it sent nothing to the device and it
\* ended with the in-progress status.
C28_DuplicateShortCircuited ==
  \A t1, t2 \in DOMAIN tasks :
    ( /\ tasks[t2].prior = t1
      /\ tasks[t1].action = tasks[t2].action
      /\ tasks[t2].action \in ASYNC_TOOL_ACTIONS
      /\ tasks[t2].pc = "end" )
    => /\ tasks[t2].found = InFlightState(tasks[t2].action)
       /\ tasks[t2].op.requests = {}
       /\ tasks[t2].lock = "fulfilled"

\* C29: the session state of every agent is one of idle, starting, running,
\* stopping, stopped, failed; it is starting (stopping) only while a start
\* (stop) body of that agent is executing; the step that ends such a body
\* leaves it running after a successful start, stopped after a successful
\* stop and failed after an error or a timeout; and a failed session does
\* not hold a start or stop back: one that finds the lock free can be
\* granted, and the callback of one that is called on a failed session
\* enters its body instead of returning at once.
C29_SessionState ==
  /\ [](\A agentId \in DOMAIN sessions :
          /\ sessions[agentId] \in
               {"idle", "starting", "running", "stopping", "stopped", "failed"}
          /\ sessions[agentId] \in {"starting", "stopping"} =>
               \E t \in DOMAIN tasks :
                 /\ tasks[t].agent = agentId
                 /\ tasks[t].action \in ASYNC_TOOL_ACTIONS
                 /\ tasks[t].ran
                 /\ tasks[t].pc \in {"metadata", "race"}
                 /\ sessions[agentId] = InFlightState(tasks[t].action))
  /\ [](\A t \in DOMAIN tasks :
          ( /\ tasks[t].pc = "waiting"
            /\ tasks[t].prior = 0
            /\ tasks[t].action \in ASYNC_TOOL_ACTIONS
            /\ SessionState(tasks[t].agent) = "failed" ) => ENABLED LockGrant(t))
  /\ [][\A t \in DOMAIN tasks :
          tasks[t].action \in ASYNC_TOOL_ACTIONS =>
            /\ ( /\ tasks[t].ran
                 /\ tasks[t].pc \in {"metadata", "race"}
                 /\ tasks'[t].pc = "end" )
                 => sessions'[tasks[t].agent] =
                      IF tasks'[t].lock = "rejected" THEN "failed"
                      ELSE IF tasks[t].action = START_STREAM THEN "running"
                      ELSE "stopped"
            /\ ( /\ LockGrant(t)
                 /\ SessionState(tasks[t].agent) = "failed"
                 /\ tasks'[t].lock # "rejected" )
                 => /\ tasks'[t].ran
                    /\ tasks'[t].pc \in {"metadata", "race"}
                    /\ sessions'[tasks[t].agent] = InFlightState(tasks[t].action)]_vars

\* a start or stop found the session failed, ran its body against the
\* device and ended well, leaving the session running or stopped
C29_Witness ==
  \E t \in DOMAIN tasks :
    /\ tasks[t].found = "failed"
    /\ tasks[t].pc = "end"
    /\ tasks[t].lock = "fulfilled"
    /\ tasks[t].op.requests # {}
    /\ sessions[tasks[t].agent] =
         (IF tasks[t].action = START_STREAM THEN "running" ELSE "stopped")

\* C30: a start_stream (stop_stream) job becomes done only in a step in
\* which the device is observed streaming (not streaming): either by the
\* state query before the command, with status already_running
\* (already_stopped) and no command sent, or by a poll after the command,
\* with status running (stopped); and when the body is still waiting for the
\* operation and the timeout fires, or a poll fails or runs out of time,
\* the job becomes failed.
C30_DoneOnlyIfObserved ==
  [][\A t \in DOMAIN tasks :
       (tasks[t].job # 0 /\ tasks[t].job \in DOMAIN jobs /\ tasks[t].job \in DOMAIN jobs')
       => /\ (jobs[tasks[t].job].status # "done" /\ jobs'[tasks[t].job].status = "done")
               => /\ ObsActive = (tasks[t].action = START_STREAM)
                  /\ \/ /\ ObsGetStreamState(t)
                        /\ CommandOf(tasks[t].action) \notin tasks[t].op.requests
                        /\ jobs'[tasks[t].job].result.status =
                             (IF tasks[t].action = START_STREAM
                              THEN "already_running" ELSE "already_stopped")
                     \/ /\ ObsPoll(t)
                        /\ CommandOf(tasks[t].action) \in tasks[t].op.requests
                        /\ jobs'[tasks[t].job].result.status =
                             (IF tasks[t].action = START_STREAM
                              THEN "running" ELSE "stopped")
          /\ ( /\ tasks[t].pc = "race"
               /\ \/ OperationTimeout(t)
                  \/ ObsPoll(t) /\ tasks'[t].op.pc = "err" )
               => jobs'[tasks[t].job].status = "failed"]_vars

\* a start job is done with status running: its first poll after the
\* command saw the device not yet streaming, a later one saw it streaming
C30_Witness ==
  \E t \in DOMAIN tasks :
    /\ tasks[t].action = START_STREAM
    /\ tasks[t].job \in DOMAIN jobs
    /\ jobs[tasks[t].job].status = "done"
    /\ jobs[tasks[t].job].result.status = "running"
    /\ tasks[t].op.polled
    /\ "StartStream" \in tasks[t].op.requests

\* C31: a sweep removes exactly the jobs with now - created_at > JOB_TTL_MS,
\* whatever their status and their last update; no other step removes a job
\* from the store; and an id that enters the store was never issued before.
C31_SweepByAge ==
  [][/\ Sweep => \A id \in DOMAIN jobs :
                   (id \notin DOMAIN jobs') <=> (now - jobs[id].created_at > JOB_TTL_MS)
     /\ ~Sweep => DOMAIN jobs \subseteq DOMAIN jobs'
     /\ \A id \in DOMAIN jobs' \ DOMAIN jobs :
          /\ id >= nextId
          /\ \A t \in DOMAIN tasks : tasks[t].job # id]_vars

\* the sweep has removed the job of an action that is still in progress and
\* has kept a younger job that has already ended
C31_Witness ==
  \E t1, t2 \in DOMAIN tasks :
    /\ tasks[t1].job # 0
    /\ tasks[t1].job \notin DOMAIN jobs
    /\ tasks[t1].pc # "end"
    /\ tasks[t2].job \in DOMAIN jobs
    /\ now - jobs[tasks[t2].job].created_at <= JOB_TTL_MS
    /\ jobs[tasks[t2].job].status \in {"done", "failed"}

\* C32 (as claimed): updated_at of a job is never older than the job's last
\* change of status.  The change to running happens where
\* executeAsyncToolAction is entered, at the time the task records as
\* started; the changes to done and failed come later still.
C32_UpdatedAtCoversStatusChange ==
  \A t \in DOMAIN tasks :
    (tasks[t].job # 0 /\ tasks[t].job \in DOMAIN jobs)
      => jobs[tasks[t].job].updated_at >= tasks[t].started

\* C33 (as claimed): a request that supplies a request_id and is answered
\* 202 carries, in the response and in the job it created, the supplied
\* request_id, trimmed.
C33_RequestIdKept ==
  [][\A p \in ValidPayloads :
       (Execute(p) /\ Trim(p.request_id) # <<>> /\ lastResponse'.code = 202)
       => /\ lastResponse'.request_id = GivenId(Trim(p.request_id))
          /\ \A id \in DOMAIN jobs' \ DOMAIN jobs :
               jobs'[id].request_id = GivenId(Trim(p.request_id))]_vars

\* C34: every admitted sync request is answered, at the latest when the
\* timer of createSyncResult fires, whether its action is still waiting for
\* the agent lock or its executor call never returns; and a request that
\* has been answered is never answered again.
C34_OneResponse ==
  /\ \A t \in 1..MaxSyncRequests :
       (t \in DOMAIN tasks /\ tasks[t].job = 0)
         ~> (t \in DOMAIN tasks /\ tasks[t].response.code \in {200, 500})
  /\ [][\A t \in DOMAIN tasks :
          (tasks[t].job = 0 /\ tasks[t].response.code # 0)
            => tasks'[t].response = tasks[t].response]_vars

\* a sync request was answered 'timed out' while its action was still
\* waiting for the agent lock; another was answered while its Twitch call
\* had not returned, and the call returned afterwards
C34_Witness ==
  \E t1, t2 \in DOMAIN tasks :
    /\ tasks[t1].job = 0
    /\ tasks[t1].pc = "waiting"
    /\ tasks[t1].response.code = 500
    /\ tasks[t2].job = 0
    /\ tasks[t2].response.error = TimedOut(tasks[t2].action)
    /\ tasks[t2].pc = "end"
    /\ tasks[t2].lock = "fulfilled"

\* C35: a twitch.set_game request whose args hold neither game nor game_id
\* is answered 400 'twitch.set_game requires game or game_id', changes no
\* state and starts no task (so no executor call); a request that holds at
\* least one of them, each present one a string of 1 to 120 (game) or 1 to
\* 80 (game_id) characters after trimming, passes validation and its action
\* is handed to the runtime.
C35_SetGameSelector ==
  [][\A p \in GamePayloads :
       Execute(p) =>
         LET has(field) == field \in DOMAIN p.args
             within(field, hi) ==
               has(field) => /\ p.args[field].type = "string"
                             /\ Len(Trim(p.args[field].s)) \in 1..hi
         IN /\ (~has("game") /\ ~has("game_id"))
                 => /\ lastResponse'.code = 400
                    /\ lastResponse'.error =
                         Failure("twitch.set_game requires game or game_id")
                    /\ UNCHANGED <<tasks, jobs, idempotency, rateLimitByAction,
                                   sessions, jobLock, obs, scene, nextId>>
            /\ ((has("game") \/ has("game_id")) /\ within("game", 120)
                  /\ within("game_id", 80))
                 => /\ validateActionPayload(p).ok
                    /\ lastResponse'.code # 400
                    /\ lastResponse'.code # 429
                         => /\ DOMAIN tasks' = DOMAIN tasks \cup {nreq'}
                            /\ tasks'[nreq'].action = SET_GAME
                            /\ tasks'[nreq'].args = validateActionPayload(p).normalized.args]_vars

\* a set_game request without selector has been rejected after one with a
\* selector was accepted and its Twitch call made
C35_Witness ==
  /\ lastResponse.code = 400
  /\ lastResponse.error = Failure("twitch.set_game requires game or game_id")
  /\ \E t \in DOMAIN tasks :
       /\ tasks[t].action = SET_GAME
       /\ tasks[t].op.pc = "ok"

\* C36 (as claimed): at most one start or stop sequence (scene change, state
\* check, command, state polls) is in progress on the OBS controller at any
\* time, whichever agents the requests come from.
C36_OneSequenceOnDevice ==
  \A t1, t2 \in DOMAIN tasks :
    ( /\ t1 # t2
      /\ tasks[t1].action \in ASYNC_TOOL_ACTIONS
      /\ tasks[t2].action \in ASYNC_TOOL_ACTIONS
      /\ tasks[t1].op.pc \in {"scene", "check", "cmd", "poll"} )
    => tasks[t2].op.pc \notin {"scene", "check", "cmd", "poll"}

\* C37 (as claimed): a request of one agent that carries the async action
\* and the request_id of a job another agent created is not answered with
\* that job; a job of its own is created and its action runs for its agent.
C37_NoReplayAcrossAgents ==
  [][\A p \in ValidPayloads : \A t \in DOMAIN tasks :
       ( /\ Execute(p)
         /\ p.action \in ASYNC_TOOL_ACTIONS
         /\ Trim(p.request_id) # <<>>
         /\ tasks[t].job \in DOMAIN jobs
         /\ tasks[t].action = p.action
         /\ tasks[t].request.request_id = Trim(p.request_id)
         /\ tasks[t].agent # Trim(p.agent_id)
         /\ lastResponse'.code = 202 )
       => /\ lastResponse'.job_id # tasks[t].job
          /\ nreq' \in DOMAIN tasks'
          /\ tasks'[nreq'].agent = Trim(p.agent_id)
          /\ jobs'[tasks'[nreq'].job].agent_id = Trim(p.agent_id)]_vars

\* C38: the idempotency map is a one-to-one correspondence between its keys
\* and the jobs in the store: every entry references a job in the store,
\* every job in the store is referenced by exactly one key, and that key is
\* made of the job's own action and request id.
C38_OneToOne ==
  /\ \A key \in DOMAIN idempotency : idempotency[key] \in DOMAIN jobs
  /\ \A id \in DOMAIN jobs :
       /\ Cardinality({key \in DOMAIN idempotency : idempotency[key] = id}) = 1
       /\ IdempotencyKey(jobs[id].action, jobs[id].request_id) \in DOMAIN idempotency
       /\ idempotency[IdempotencyKey(jobs[id].action, jobs[id].request_id)] = id

\* two jobs are in the store under two keys, after the sweep has evicted a
\* job and pruned its key
C38_Witness ==
  /\ Cardinality(DOMAIN jobs) = 2
  /\ Cardinality(DOMAIN idempotency) = 2
  /\ \E t \in DOMAIN tasks : tasks[t].job # 0 /\ tasks[t].job \notin DOMAIN jobs

\* C39: the progress percent of every job in the store is one of 5, 20, 45,
\* 70, 100 and is 100 exactly when the status is done or failed; no step
\* lowers it; and the values written on the way (20 between creation and
\* the first await, 70 in the finally before the job settles) lie in that
\* set and between the value before and the value after.
C39_Progress ==
  /\ [](\A id \in DOMAIN jobs :
          /\ jobs[id].progress.percent \in {5, 20, 45, 70, 100}
          /\ (jobs[id].progress.percent = 100) <=> (jobs[id].status \in {"done", "failed"}))
  /\ [][\A id \in DOMAIN jobs' :
          IF id \in DOMAIN jobs
          THEN /\ jobs'[id].progress.percent >= jobs[id].progress.percent
               /\ \A t \in DOMAIN tasks :
                    (tasks[t].job = id /\ jobs'[id] # jobs[id])
                    => /\ executeAsyncToolActionFinally(jobs[id], tasks[t].started, now).progress.percent
                            \in {jobs[id].progress.percent, 70}
                       /\ executeAsyncToolActionFinally(jobs[id], tasks[t].started, now).progress.percent
                            >= jobs[id].progress.percent
                       /\ jobs'[id].progress.percent = 100
          ELSE /\ jobs'[id] = executeAsyncToolActionEntry(
                                [jobs'[id] EXCEPT !.status = "queued",
                                                  !.progress = buildProgress(5, "queued")])
               /\ executeAsyncToolActionStart(
                    [jobs'[id] EXCEPT !.status = "queued",
                                      !.progress = buildProgress(5, "queued")]).progress.percent = 20
               /\ jobs'[id].progress.percent = 45]_vars

\* a start job that passed 70 on its way (it settled after the clock had
\* moved on) has failed at 100, and a stop job is done at 100
C39_Witness ==
  \E t1, t2 \in DOMAIN tasks :
    /\ tasks[t1].job \in DOMAIN jobs
    /\ tasks[t1].action = START_STREAM
    /\ jobs[tasks[t1].job].status = "failed"
    /\ jobs[tasks[t1].job].updated_at > tasks[t1].started
    /\ jobs[tasks[t1].job].progress.percent = 100
    /\ tasks[t2].job \in DOMAIN jobs
    /\ jobs[tasks[t2].job].status = "done"
    /\ jobs[tasks[t2].job].progress.percent = 100

\* C40: the rate limiter runs before the idempotency lookup: a request that
\* would replay a job in the store is counted in the bucket of its action
\* like any other, and when it finds the bucket at capacity it is answered
\* 429 'rate limit exceeded for action' and not with the job's summary.
C40_RateLimitBeforeDedup ==
  [][\A p \in RatePayloads :
       Execute(p) =>
         LET n == validateActionPayload(p).normalized
             key == IdempotencyKey(n.action, RequestIdOf(n, nextId))
             replay == key \in DOMAIN idempotency /\ idempotency[key] \in DOMAIN jobs
             count == IF InWindow(n.action) THEN rateLimitByAction[n.action].count ELSE 0
         IN replay =>
              IF count >= ACTION_RATE_LIMIT_PER_MIN
              THEN /\ lastResponse'.code = 429
                   /\ lastResponse'.error = Failure("rate limit exceeded for action")
                   /\ lastResponse'.job_id = 0
                   /\ UNCHANGED <<jobs, idempotency, tasks>>
              ELSE /\ lastResponse' = ReplayResponse(jobs[idempotency[key]])
                   /\ rateLimitByAction'[n.action].count = count + 1
                   /\ UNCHANGED <<jobs, idempotency, tasks>>]_vars

\* one job was created and replayed, the replay filling the bucket of its
\* action, and the third request was answered 429
C40_Witness ==
  /\ nreq = ACTION_RATE_LIMIT_PER_MIN + 1
  /\ DOMAIN tasks = {1}
  /\ DOMAIN jobs = {tasks[1].job}
  /\ rateLimitByAction[tasks[1].action].count = ACTION_RATE_LIMIT_PER_MIN
  /\ lastResponse.code = 429
====
